---------------------------- MODULE Spec2Model ----------------------------
(***************************************************************************)
(* A model of pxsort (g-s-k/pxsort): the key extractors of                 *)
(* src/heuristic.rs, the run sorter Config::do_sort and the pass           *)
(* Config::sort of src/lib.rs.                                             *)
(*                                                                         *)
(* A pixel is a tuple <<R, G, B, A>> of 8-bit channels.  A scan line is a  *)
(* sequence of pixels.  An image is a record [w, h, px] whose px is the    *)
(* row-major sequence of its w * h pixels.                                 *)
(***************************************************************************)
EXTENDS Integers, Sequences, FiniteSets, Bags, TLC

VARIABLES
    cfg,        \* the Config of the pass (lib.rs 32-76)
    tie,        \* how this build's sort_unstable_by orders equal keys
    pixels,     \* do_sort: the slice being sorted
    ctr,        \* do_sort: the cursor (lib.rs 100)
    orig,       \* do_sort: the slice as it was handed in
    sortedIdx,  \* do_sort: positions that were inside a slice given to the sort
    skippedIdx, \* do_sort: positions stepped over by the skip loop
    img,        \* sort: the image handed in
    rgba,       \* sort: the buffer written by put_pixel (lib.rs 146)
    rgba_c,     \* sort: the clone read by get_pixel (lib.rs 180, 238, 288, 320)
    lineNo,     \* sort: iterations of the scan-line loop done so far
    idxes,      \* sort: the coordinates of the scan line processed last
    out,        \* sort: the image returned
    text,       \* the text handed to check_angle or Shape::from_str
    result,     \* the Result check_angle or Shape::from_str returned
    input,      \* web UI: Root.input (examples/www/src/main.rs 22)
    output,     \* web UI: Root.output (examples/www/src/main.rs 23)
    tasks,      \* web UI: Root.tasks (examples/www/src/main.rs 20)
    nmsg,       \* web UI: messages handled by Root::update so far
    pc          \* position in the code

dsvars == <<pixels, ctr, orig, sortedIdx, skippedIdx>>
imvars == <<img, rgba, rgba_c, lineNo, idxes, out>>
txvars == <<text, result>>
uivars == <<input, output, tasks, nmsg>>
vars == <<cfg, tie, pixels, ctr, orig, sortedIdx, skippedIdx,
          img, rgba, rgba_c, lineNo, idxes, out, text, result,
          input, output, tasks, nmsg, pc>>

\* Option: None and Some(v)
None == [some |-> FALSE]
Some(v) == [some |-> TRUE, v |-> v]

\* Result: Ok(v) and Err(e)
Ok(v) == [ok |-> TRUE, v |-> v]
Err(e) == [ok |-> FALSE, e |-> e]

\* the variables of the parsers and of the web UI while they are not in use
Unused ==
    /\ text = << >> /\ result = None
    /\ input = None /\ output = None /\ tasks = << >> /\ nmsg = 0

---------------------------------------------------------------------------
(* Bounds of the model.                                                    *)

\* longest scan line handed to do_sort in SpecDoSort
MaxLen == 3

\* largest width and height of an image handed to sort in Spec
MaxDim == 2

\* largest number of pixels of an image handed to sort in Spec
MaxCells == 4

---------------------------------------------------------------------------
(* Small helpers.                                                          *)

Min2(a, b) == IF a <= b THEN a ELSE b
Max2(a, b) == IF a >= b THEN a ELSE b
Abs(a) == IF a < 0 THEN -a ELSE a
SetMin(S) == CHOOSE m \in S : \A n \in S : m <= n
SetMax(S) == CHOOSE m \in S : \A n \in S : m >= n

\* the multiset of the values of a sequence
BagOf(s) == [v \in {s[i] : i \in 1..Len(s)} |-> Cardinality({i \in 1..Len(s) : s[i] = v})]

---------------------------------------------------------------------------
(* src/heuristic.rs: the key extractors.                                   *)

Heuristics ==
    {"Luma", "Brightness", "Max", "Min", "Chroma", "Hue", "Saturation",
     "Value", "Red", "Blue", "Green"}

\* the hidden variant of the enum
Nonexhaustive == "__Nonexhaustive"

\* the outcome of an operation that overflows its type or divides by zero:
\* a panic where overflow checks are compiled in.  It is below every value
\* the key extractors compute, and stays so through their arithmetic.
PANIC == -1000000

\* a result of u8 (u16) arithmetic: the value if the type holds it
u8(v) == IF v \in 0..255 THEN v ELSE PANIC
u16(v) == IF v \in 0..65535 THEN v ELSE PANIC

\* a / b on unsigned integers
div(a, b) == IF b = 0 \/ a < 0 \/ b < 0 THEN PANIC ELSE a \div b

\* v as u8
as_u8(v) == IF v < 0 THEN PANIC ELSE v % 256

pixel_max(p) == Max2(p[1], Max2(p[2], p[3]))

pixel_min(p) == Min2(p[1], Min2(p[2], p[3]))

pixel_chroma(p) == u8(pixel_max(p) - pixel_min(p))

\* Iterator::max_by_key returns the LAST element when several are maximal.
HueSector(p) ==
    IF p[3] >= p[1] /\ p[3] >= p[2] THEN 2
    ELSE IF p[2] >= p[1] THEN 1
    ELSE 0

\* mutant of pixel_hue: without the early return for c == 0
pixel_hue_no_early_return(p) ==
    LET c == pixel_chroma(p)
    IN  CASE HueSector(p) = 0 -> u8(div(as_u8(Abs(p[2] - p[3])), c) * 43)
          [] HueSector(p) = 1 -> u8(u8(div(as_u8(Abs(p[3] - p[1])), c) * 43) + 85)
          [] OTHER            -> u8(u8(div(as_u8(Abs(p[1] - p[2])), c) * 43) + 171)

pixel_hue(p) ==
    LET c == pixel_chroma(p)
    IN  IF c = 0 THEN 0
        ELSE CASE HueSector(p) = 0 -> u8(div(as_u8(Abs(p[2] - p[3])), c) * 43)
               [] HueSector(p) = 1 -> u8(u8(div(as_u8(Abs(p[3] - p[1])), c) * 43) + 85)
               [] OTHER            -> u8(u8(div(as_u8(Abs(p[1] - p[2])), c) * 43) + 171)

\* mutant of pixel_saturation: the quotient taken the other way round
pixel_saturation_inverse(p) ==
    IF pixel_max(p) = 0 THEN 0 ELSE div(pixel_max(p), pixel_chroma(p))

pixel_saturation(p) ==
    IF pixel_max(p) = 0 THEN 0 ELSE div(pixel_chroma(p), pixel_max(p))

\* mutant of pixel_brightness: the naive (R + G + B) / 3 in u8
pixel_brightness_naive(p) == div(u8(u8(p[1] + p[2]) + p[3]), 3)

pixel_brightness(p) ==
    u8(u8(u8((p[1] \div 3) + (p[2] \div 3)) + (p[3] \div 3))
        + (u8(u8((p[1] % 3) + (p[2] % 3)) + (p[3] % 3)) \div 3))

\* the u16 sum shifted right by 3, before the cast
luma_u16(p) == div(u16(u16(u16(p[1] * 2) + p[2]) + u16(p[3] * 4)), 8)

\* ... as u8
pixel_luma(p) == as_u8(luma_u16(p))

\* Heuristic::func
func(h, p) ==
    CASE h = "Red"        -> p[1]
      [] h = "Green"      -> p[2]
      [] h = "Blue"       -> p[3]
      [] h \in {"Max", "Value"} -> pixel_max(p)
      [] h = "Min"        -> pixel_min(p)
      [] h = "Chroma"     -> pixel_chroma(p)
      [] h = "Hue"        -> pixel_hue(p)
      [] h = "Saturation" -> pixel_saturation(p)
      [] h = "Brightness" -> pixel_brightness(p)
      [] h = "Luma"       -> pixel_luma(p)
      [] h = Nonexhaustive -> PANIC

---------------------------------------------------------------------------
(* src/lib.rs 96-131: Config::do_sort.                                     *)

\* let sort_fn = self.function.func();
sort_fn(c, p) == func(c.function, p)

\* mutants of mask_fn: the mask forgotten; the alpha test inverted
mask_fn_forgotten(c, p) == TRUE
mask_fn_inverted(c, p) == ~(c.mask_alpha /\ p[4] # 0)

\* let mask_fn = |p| !(self.mask_alpha && p.data[3] == 0);
mask_fn(c, p) == ~(c.mask_alpha /\ p[4] = 0)

\* the take_while predicate of the "good" sequence (lib.rs 105-108)
RunPred(c, p) ==
    LET l == sort_fn(c, p)
    IN  ((l >= c.minimum /\ l <= c.maximum) # c.invert) /\ mask_fn(c, p)

\* mutant of SkipPred: the mask left out of the skip test
SkipPred_no_mask(c, p) ==
    LET l == sort_fn(c, p)
    IN  (l < c.minimum \/ l > c.maximum) # c.invert

\* the take_while predicate of the skip loop (lib.rs 125-128)
SkipPred(c, p) ==
    LET l == sort_fn(c, p)
    IN  ((l < c.minimum \/ l > c.maximum) # c.invert) \/ ~mask_fn(c, p)

\* s[from+1..].iter().take_while(P).count(), P given as the set of positions
\* of s where the predicate holds
TakeWhileCount(s, from, holds) ==
    CHOOSE n \in {IF stops = {} THEN Len(s) - from ELSE SetMin(stops) - from - 1 :
                     stops \in {{j \in (from + 1)..Len(s) : j \notin h} : h \in {holds}}} :
        TRUE

\* mutant of Compare: self.reverse ignored
Compare_no_reverse(c, l, r) ==
    IF sort_fn(c, l) < sort_fn(c, r) THEN -1
    ELSE IF sort_fn(c, l) > sort_fn(c, r) THEN 1 ELSE 0

\* mutant of Compare: the test of self.reverse inverted
Compare_inverted(c, l, r) ==
    LET a == IF c.reverse THEN sort_fn(c, l) ELSE sort_fn(c, r)
        b == IF c.reverse THEN sort_fn(c, r) ELSE sort_fn(c, l)
    IN  IF a < b THEN -1 ELSE IF a > b THEN 1 ELSE 0

\* the comparator handed to sort_unstable_by (lib.rs 112-118): -1, 0 or 1
Compare(c, l, r) ==
    LET a == IF c.reverse THEN sort_fn(c, r) ELSE sort_fn(c, l)
        b == IF c.reverse THEN sort_fn(c, l) ELSE sort_fn(c, r)
    IN  IF a < b THEN -1 ELSE IF a > b THEN 1 ELSE 0

\* The orders in which a build's sort_unstable_by may leave elements that
\* compare equal: the library promises a sorted permutation and nothing
\* about equal elements.  "keep" leaves them in input order, "flip" in
\* reverse input order.
TieOrders == {"keep", "flip"}

\* mutant of InsertSorted: x overwrites the element at its place instead of
\* shifting the tail
InsertSorted_overwrite(c, t, s, x) ==
    LET n == Cardinality({j \in 1..Len(s) : Compare(c, s[j], x) <= 0})
    IN  IF n < Len(s) THEN SubSeq(s, 1, n) \o <<x, x>> \o SubSeq(s, n + 2, Len(s))
        ELSE s \o <<x>>

\* mutant of InsertSorted: x is put first whatever its key
InsertSorted_first(c, t, s, x) == <<x>> \o s

\* x inserted into the sorted sequence s
InsertSorted(c, t, s, x) ==
    LET before == {j \in 1..Len(s) :
                      IF t = "keep" THEN Compare(c, s[j], x) <= 0
                                    ELSE Compare(c, s[j], x) < 0}
        n == Cardinality(before)
    IN  SubSeq(s, 1, n) \o <<x>> \o SubSeq(s, n + 1, Len(s))

\* the elements of rest inserted one by one; each intermediate sequence is
\* bound to a value before it is used
RECURSIVE InsertAll(_, _, _, _)
InsertAll(c, t, done, rest) ==
    IF rest = << >> THEN done
    ELSE CHOOSE r \in {InsertAll(c, t, d, tl) :
                          d \in {InsertSorted(c, t, done, Head(rest))},
                          tl \in {Tail(rest)}} : TRUE

\* slice.sort_unstable_by(compare)
sort_unstable_by(c, t, s) == InsertAll(c, t, << >>, s)

\* mutant of DoSortIter: the sort is given the rest of the slice,
\* pixels[ctr..], instead of pixels[ctr..ctr + numel]
DoSortIter_sort_rest(c, t, px, at) ==
    LET n     == Len(px)
        numel == TakeWhileCount(px, at, {j \in 1..n : RunPred(c, px[j])})
        px1   == SubSeq(px, 1, at) \o sort_unstable_by(c, t, SubSeq(px, at + 1, n))
        at1   == at + numel
        skip  == TakeWhileCount(px1, at1, {j \in 1..n : SkipPred(c, px1[j])})
    IN  [pixels |-> px1, run_end |-> at1, ctr |-> Max2(at1 + skip, at + 1)]

\* One iteration of the while loop of do_sort (lib.rs 101-130): the slice
\* and the cursor after it, with the bounds of the sorted run.
\* Each value (numel, the slice after the sort, the skip) is bound before it
\* is used.
DoSortIter(c, t, px, at) ==
    CHOOSE it \in UNION {UNION {
        {[pixels |-> px1, run_end |-> at + numel, ctr |-> at + numel + skip] :
            skip \in {TakeWhileCount(px1, at + numel,
                                      {j \in 1..Len(px1) : SkipPred(c, px1[j])})}} :
        px1 \in {SubSeq(px, 1, at)
                    \o sort_unstable_by(c, t, SubSeq(px, at + 1, at + numel))
                    \o SubSeq(px, at + numel + 1, Len(px))}} :
        numel \in {TakeWhileCount(px, at, {j \in 1..Len(px) : RunPred(c, px[j])})}} :
        TRUE

RECURSIVE DoSortFrom(_, _, _, _)
DoSortFrom(c, t, px, at) ==
    IF ~(at < Len(px)) THEN px
    ELSE LET it == DoSortIter(c, t, px, at)
         IN  DoSortFrom(c, t, it.pixels, it.ctr)

\* Config::do_sort as a function of the slice
do_sort(c, t, px) == DoSortFrom(c, t, px, 0)

---------------------------------------------------------------------------
(* Pixel buffers (the image crate's ImageBuffer, as Config::sort uses it). *)

Image(w, h, px) == [w |-> w, h |-> h, px |-> px]

NoImage == Image(0, 0, << >>)

InBounds(b, c) == c[1] >= 0 /\ c[1] < b.w /\ c[2] >= 0 /\ c[2] < b.h

\* get_pixel(x, y)
get_pixel(b, c) == b.px[c[2] * b.w + c[1] + 1]

\* mutant of put_pixels: every coordinate of the line is given the line's
\* first pixel
put_pixels_first(b, cs, ps) ==
    Image(b.w, b.h,
          [i \in 1..Len(b.px) |->
              LET js == {j \in 1..Len(cs) : cs[j][2] * b.w + cs[j][1] + 1 = i}
              IN  IF js = {} THEN b.px[i] ELSE ps[1]])

\* for ((x, y), px) in idxes.iter().zip(pixels.iter()) { put_pixel(x, y, px) }:
\* the writes happen in order, so the last write to a coordinate stays
put_pixels(b, cs, ps) ==
    Image(b.w, b.h,
          [i \in 1..Len(b.px) |->
              LET js == {j \in 1..Len(cs) : cs[j][2] * b.w + cs[j][1] + 1 = i}
              IN  IF js = {} THEN b.px[i] ELSE ps[SetMax(js)]])

\* DynamicImage::rotate90: out.put_pixel(height - 1 - y, x, p)
rotate90(b) ==
    Image(b.h, b.w,
          [i \in 1..Len(b.px) |->
              LET X == (i - 1) % b.h
                  Y == (i - 1) \div b.h
              IN  get_pixel(b, <<Y, b.h - 1 - X>>)])

\* DynamicImage::rotate270: out.put_pixel(y, width - 1 - x, p)
rotate270(b) ==
    Image(b.h, b.w,
          [i \in 1..Len(b.px) |->
              LET X == (i - 1) % b.h
                  Y == (i - 1) \div b.h
              IN  get_pixel(b, <<b.w - 1 - Y, X>>)])

---------------------------------------------------------------------------
(* The inputs of the model.                                                *)

\* pixels: an opaque grey, an opaque red, and a transparent green whose R
\* and B equal the grey's and the red's
Palette ==
    { <<50, 50, 50, 255>>, <<200, 50, 10, 255>>, <<50, 204, 10, 0>> }

\* values of minimum and maximum
Thresholds == {50, 200}

Config(mn, mx, f, rev, inv, vert, mask, ang, path) ==
    [minimum |-> mn, maximum |-> mx, function |-> f, reverse |-> rev,
     invert |-> inv, vertical |-> vert, mask_alpha |-> mask, angle |-> ang,
     path |-> path]

\* impl Default for Config (lib.rs 78-93)
DefaultConfig ==
    Config(0, 255, "Luma", FALSE, FALSE, FALSE, FALSE, 0, [shape |-> "Linear"])

SeqsUpTo(S, n) == UNION {[1..k -> S] : k \in 0..n}

\* the scan line of spec.md section 8, as grey pixels sorted by Red
ExampleLine ==
    << <<10, 10, 10, 255>>, <<200, 200, 200, 255>>, <<50, 50, 50, 255>>,
       <<60, 60, 60, 255>>, <<5, 5, 5, 255>>, <<210, 210, 210, 255>> >>

ExampleConfig(rev) ==
    [DefaultConfig EXCEPT !.minimum = 40, !.maximum = 100,
                          !.function = "Red", !.reverse = rev]

---------------------------------------------------------------------------
(* SpecDoSort: Config::do_sort on one scan line, one action per iteration  *)
(* of its while loop.                                                      *)

InitDoSort ==
    /\ tie \in TieOrders
    /\ \/ /\ cfg \in {Config(mn, mx, f, rev, inv, FALSE, mask, 0, [shape |-> "Linear"]) :
                        mn \in Thresholds, mx \in Thresholds, f \in Heuristics,
                        rev \in BOOLEAN, inv \in BOOLEAN, mask \in BOOLEAN}
          /\ pixels \in SeqsUpTo(Palette, MaxLen)
       \/ /\ cfg \in {ExampleConfig(rev) : rev \in BOOLEAN}
          /\ pixels = ExampleLine
    /\ orig = pixels
    /\ ctr = 0
    /\ sortedIdx = {}
    /\ skippedIdx = {}
    /\ img = NoImage /\ rgba = NoImage /\ rgba_c = NoImage /\ out = NoImage
    /\ lineNo = 0
    /\ idxes = << >>
    /\ Unused
    /\ pc = "do_sort"

\* while ctr < pixels.len() { ... }
DoSortLoop ==
    /\ pc = "do_sort"
    /\ ctr < Len(pixels)
    /\ \E it \in {DoSortIter(cfg, tie, pixels, ctr)} :
           /\ pixels' = it.pixels
           /\ ctr' = it.ctr
           /\ sortedIdx' = sortedIdx \cup ((ctr + 1)..it.run_end)
           /\ skippedIdx' = skippedIdx \cup ((it.run_end + 1)..it.ctr)
    /\ UNCHANGED <<cfg, tie, orig, pc, imvars, txvars, uivars>>

\* the loop condition fails and do_sort returns
DoSortReturn ==
    /\ pc = "do_sort"
    /\ ~(ctr < Len(pixels))
    /\ pc' = "returned"
    /\ UNCHANGED <<cfg, tie, dsvars, imvars, txvars, uivars>>

NextDoSort == DoSortLoop \/ DoSortReturn

SpecDoSort == InitDoSort /\ [][NextDoSort]_vars

\* do_sort is a loop without suspension points: while its condition holds
\* the next iteration is taken
SpecDoSortFair == SpecDoSort /\ WF_vars(NextDoSort)

---------------------------------------------------------------------------
(* f32 arithmetic.  A finite f32 value v is modelled by the integer        *)
(* floor(v * FP); a value that is not finite (a division by zero, the      *)
(* sine of an infinity) fails every comparison of the bounds filters and   *)
(* is modelled by dropping the sample.  Sines and cosines are taken of     *)
(* angles rounded down to half degrees, by Bhaskara's rational formula.    *)

\* fixed-point unit: thirds, fifths and halves are exact
FP == 600

\* std::f32::consts::PI, in units of 1/FP
PI == 1885

\* f32::NAN and f32::INFINITY: an infinity compares as a number beyond every
\* finite value of the model; NaN takes part in no arithmetic and every
\* comparison with it is false (FLe, FGe)
NAN == 1000000000
INFINITY == 999999999

IsNaN(v) == v = NAN
NotFinite(v) == v = NAN \/ v = INFINITY \/ v = -INFINITY

\* a <= b and a >= b of f32
FLe(a, b) == ~IsNaN(a) /\ ~IsNaN(b) /\ a <= b
FGe(a, b) == ~IsNaN(a) /\ ~IsNaN(b) /\ a >= b

FMul(a, b) == (a * b) \div FP
FDiv(a, b) == (a * FP) \div b

RECURSIVE ISqrtIn(_, _, _)
ISqrtIn(n, lo, hi) ==
    IF lo >= hi THEN lo
    ELSE LET mid == (lo + hi + 1) \div 2
         IN  IF mid * mid <= n THEN ISqrtIn(n, mid, hi) ELSE ISqrtIn(n, lo, mid - 1)

\* floor of the square root of an integer n >= 0
ISqrt(n) == ISqrtIn(n, 0, 46340)

\* f32::sqrt of a value >= 0
FSqrt(v) == ISqrt(v * FP)

\* sine of hd half degrees
SinH(hd) ==
    LET m == hd % 720
        p == m % 360
        v == (16 * p * (360 - p) * FP) \div (648000 - 4 * p * (360 - p))
    IN  IF m < 360 THEN v ELSE -v

CosH(hd) == SinH(hd + 180)

\* self.angle.to_radians().sin(), .cos(), .tan()
AngleSin(c) == SinH((2 * c.angle) \div FP)
AngleCos(c) == CosH((2 * c.angle) \div FP)
AngleTan(c) == FDiv(AngleSin(c), AngleCos(c))

\* (w as f32).hypot(h as f32).floor() as u32
Diag(w, h) == ISqrt(w * w + h * h)

\* |(x, y)| (x * cos - y * sin, y * cos + x * sin)
Rotate(c, q) ==
    <<FMul(q[1], AngleCos(c)) - FMul(q[2], AngleSin(c)),
      FMul(q[2], AngleCos(c)) + FMul(q[1], AngleSin(c))>>

\* mutant of Clip: the upper bounds tested with <= instead of <
Clip_inclusive(w, h, q) ==
    q[1] >= 0 /\ q[1] <= w * FP /\ q[2] >= 0 /\ q[2] <= h * FP

\* the filter of filter_map: x >= 0. && x < w as f32 && y >= 0. && y < h as f32
Clip(w, h, q) ==
    q[1] >= 0 /\ q[1] < w * FP /\ q[2] >= 0 /\ q[2] < h * FP

\* Some((x.floor() as u32, y.floor() as u32))
Floor(q) == <<q[1] \div FP, q[2] \div FP>>

\* the samples that pass the filter, floored, in order; a sample is a record
\* [ok, q]: ok is FALSE for a sample that is not finite
ClipFloor(w, h, samples) ==
    LET Keep(sm) == sm.ok /\ Clip(w, h, sm.q)
        kept == SelectSeq(samples, Keep)
    IN  [j \in 1..Len(kept) |-> Floor(kept[j].q)]

RECURSIVE DedupFrom(_, _)
DedupFrom(s, acc) ==
    IF s = << >> THEN acc
    ELSE IF acc # << >> /\ acc[Len(acc)] = Head(s) THEN DedupFrom(Tail(s), acc)
    ELSE DedupFrom(Tail(s), Append(acc, Head(s)))

\* Vec::dedup: consecutive repeated elements removed
dedup(s) == DedupFrom(s, << >>)

---------------------------------------------------------------------------
(* src/lib.rs 158-337: the scan lines of Config::sort.                     *)

\* n_shells (lib.rs 168)
NShells(w, h, c) ==
    LET e == c.path.eccentricity
    IN  Diag(w, h) * 5 * (FMul(FP + e, FP + e) \div FP)

\* the coordinates of the shell of semi-major axis da / 5 (lib.rs 181-201)
EllipseIdxes(w, h, c, da) ==
    LET e    == c.path.eccentricity
        c_x  == (w * c.path.center[1]) \div FP
        c_y  == (h * c.path.center[2]) \div FP
        a    == (da * FP) \div 5
        a_sq == FMul(a, a)
        b_sq == FMul(a_sq, FP - FMul(e, e))
        cc   == FSqrt(a_sq - b_sq)
        mean == (a_sq + b_sq) \div 2
        peri == IF mean < 0 THEN 0 ELSE FMul(2 * PI, FSqrt(mean)) \div FP
        Sample(dt) ==
            LET theta == (240 * dt) \div peri
                den   == FP - FMul(e, CosH(theta))
            IN  IF a = 0 \/ den = 0 \/ NotFinite(c.angle)
                THEN [ok |-> FALSE, q |-> <<0, 0>>]
                ELSE LET r  == FDiv(FDiv(b_sq, a), den)
                         q1 == <<FMul(r, CosH(theta)) - cc, FMul(r, SinH(theta))>>
                         q2 == Rotate(c, q1)
                     IN  [ok |-> TRUE, q |-> <<q2[1] + c_x * FP, q2[2] + c_y * FP>>]
    IN  dedup(ClipFloor(w, h, [j \in 1..(peri * 3) |-> Sample(j - 1)]))

\* the rows of the sine pass: 0..(diag * 3) (lib.rs 239)
NSineRows(w, h) == Diag(w, h) * 3

\* the coordinates of sine row row_idx (lib.rs 240-258)
SineIdxes(w, h, c, row_idx) ==
    LET diag == Diag(w, h)
        c_x  == w \div 2
        c_y  == h \div 2
        Sample(x) ==
            IF c.path.lambda = 0 \/ NotFinite(c.angle)
            THEN [ok |-> FALSE, q |-> <<0, 0>>]
            ELSE LET arg == FDiv(x * FP, c.path.lambda) + c.path.offset
                     hd  == (arg * 2520) \div (22 * FP)
                     y   == (row_idx * FP) \div 3 + FMul(SinH(hd), c.path.amplitude)
                     q1  == <<x * FP - (diag * FP) \div 2, y - (diag * FP) \div 2>>
                     q2  == Rotate(c, q1)
                 IN  [ok |-> TRUE, q |-> <<q2[1] + c_x * FP, q2[2] + c_y * FP>>]
    IN  ClipFloor(w, h, [j \in 1..diag |-> Sample(j - 1)])

\* extra_height (lib.rs 275); the tangent of an angle that is not finite is
\* NaN, and NaN `as i64` is 0
ExtraHeight(w, c) ==
    IF NotFinite(c.angle) THEN 0 ELSE (AngleTan(c) * w) \div FP

\* the first row_idx of the range (lib.rs 276-280)
AngledFirst(w, c) == IF ExtraHeight(w, c) > 0 THEN -ExtraHeight(w, c) ELSE 0

\* the number of row_idx of the range (lib.rs 276-280)
NAngledRows(w, h, c) ==
    IF ExtraHeight(w, c) > 0 THEN Max2(0, h + ExtraHeight(w, c))
    ELSE Max2(0, h - ExtraHeight(w, c))

\* `as u32` of a float: truncation toward zero, a negative value gives 0
AsU32(v) == IF v <= 0 THEN 0 ELSE v \div FP

\* mutant of AngledIdxes: the coordinates of row y = 0 are kept
AngledIdxes_keep_zero(w, h, c, row_idx) ==
    LET Y(x) == IF NotFinite(c.angle) THEN 0
                ELSE AsU32(x * AngleTan(c) + row_idx * FP)
        all  == [j \in 1..w |-> <<j - 1, Y(j - 1)>>]
        Keep(xy) == xy[2] >= 0 /\ xy[2] < h
    IN  SelectSeq(all, Keep)

\* the coordinates of slanted row row_idx (lib.rs 290-293)
AngledIdxes(w, h, c, row_idx) ==
    LET Y(x) == IF NotFinite(c.angle) THEN 0
                ELSE AsU32(x * AngleTan(c) + row_idx * FP)
        all  == [j \in 1..w |-> <<j - 1, Y(j - 1)>>]
        Keep(xy) == xy[2] > 0 /\ xy[2] < h
    IN  SelectSeq(all, Keep)

\* the coordinates of chunk idx_y of chunks_mut(w) (lib.rs 319-329)
LinearIdxes(w, h, idx_y) ==
    [j \in 1..Min2(w, w * h - idx_y * w) |-> <<j - 1, idx_y>>]

\* the chunks of chunks_mut(w) over the w * h pixels
NLinearRows(w, h) == (w * h + w - 1) \div w

Branch(c) ==
    CASE c.path.shape = "Ellipse" -> "ellipse"
      [] c.path.shape = "Sine"    -> "sine"
      [] c.path.shape = "Linear" /\ c.angle # 0 -> "angled"
      [] c.path.shape = "Linear"  -> "linear"

\* the iterations of the loop of the branch
NLines(w, h, c) ==
    CASE Branch(c) = "ellipse" -> NShells(w, h, c)
      [] Branch(c) = "sine"    -> NSineRows(w, h)
      [] Branch(c) = "angled"  -> NAngledRows(w, h, c)
      [] Branch(c) = "linear"  -> NLinearRows(w, h)

\* mutant of LineIdxes: the shells taken from the innermost outwards
LineIdxes_inner_first(w, h, c, n) ==
    CASE Branch(c) = "ellipse" -> EllipseIdxes(w, h, c, n)
      [] Branch(c) = "sine"    -> SineIdxes(w, h, c, n)
      [] Branch(c) = "angled"  -> AngledIdxes(w, h, c, AngledFirst(w, c) + n)
      [] Branch(c) = "linear"  -> LinearIdxes(w, h, n)

\* the coordinates of the scan line of iteration n (from 0) of the branch
LineIdxes(w, h, c, n) ==
    CASE Branch(c) = "ellipse" -> EllipseIdxes(w, h, c, NShells(w, h, c) - 1 - n)
      [] Branch(c) = "sine"    -> SineIdxes(w, h, c, n)
      [] Branch(c) = "angled"  -> AngledIdxes(w, h, c, AngledFirst(w, c) + n)
      [] Branch(c) = "linear"  -> LinearIdxes(w, h, n)

---------------------------------------------------------------------------
(* Spec: Config::sort, one action per iteration of its scan-line loop.     *)

Dims == {d \in (0..MaxDim) \X (0..MaxDim) : d[1] * d[2] <= MaxCells}

ImagesOver(S) ==
    UNION {{Image(d[1], d[2], px) : px \in [1..(d[1] * d[2]) -> S]} : d \in Dims}

\* angles of the pass: 0, 30 and -45 degrees
Angles == {0, 30 * FP, -45 * FP}

\* DEFAULT_SINE and DEFAULT_ELL (path.rs 7-15) and other shapes
Sine(amp, lambda, off) ==
    [shape |-> "Sine", amplitude |-> amp, lambda |-> lambda, offset |-> off]
Ellipse(ecc, cx, cy) ==
    [shape |-> "Ellipse", eccentricity |-> ecc, center |-> <<cx, cy>>]

\* the curved paths: the two defaults, a short wave, amplitude 0, lambda 0,
\* eccentricity 1/2, and eccentricity 1 about the corner
CurvedPaths ==
    { Sine(25 * FP, 50 * FP, 0), Sine(FP, FP, 0), Sine(0, FP, 0), Sine(FP, 0, 0),
      Ellipse(0, FP \div 2, FP \div 2), Ellipse(FP \div 2, FP \div 2, FP \div 2),
      Ellipse(FP, 0, 0) }

\* minimum, maximum, function, reverse, invert, mask_alpha of the pass
SortSettings ==
    { [DefaultConfig EXCEPT !.reverse = rev] : rev \in BOOLEAN }
    \cup { [DefaultConfig EXCEPT !.minimum = 50, !.maximum = 200, !.function = "Red",
                                 !.mask_alpha = TRUE],
           [DefaultConfig EXCEPT !.minimum = 200, !.maximum = 50] }

\* Linear passes over every image of the palette under every setting; curved
\* passes over the images of two pixel values, forwards and reversed
InitInputs ==
    \/ /\ tie \in TieOrders
       /\ cfg \in {[s EXCEPT !.vertical = v, !.angle = a] :
                     s \in SortSettings, v \in BOOLEAN, a \in Angles}
       /\ img \in ImagesOver(Palette)
    \/ /\ tie = "keep"
       /\ cfg \in {[DefaultConfig EXCEPT !.reverse = rev, !.angle = a, !.path = p] :
                     rev \in BOOLEAN, a \in {0, 30 * FP}, p \in CurvedPaths}
       /\ img \in ImagesOver({<<50, 50, 50, 255>>, <<200, 50, 10, 255>>})

Init ==
    /\ InitInputs
    /\ rgba = NoImage /\ rgba_c = NoImage /\ out = NoImage
    /\ lineNo = 0
    /\ idxes = << >>
    /\ pixels = << >> /\ orig = << >> /\ ctr = 0
    /\ sortedIdx = {} /\ skippedIdx = {}
    /\ Unused
    /\ pc = "sort"

\* lib.rs 142-158 and the entry of the match arm: the pre-rotation, to_rgba,
\* the clone; chunks_mut(0) panics in the arm of Shape::Linear
Begin ==
    /\ pc = "sort"
    /\ LET r == IF cfg.vertical THEN rotate90(img) ELSE img
       IN  /\ rgba' = r
           /\ rgba_c' = r
           /\ pc' = IF Branch(cfg) = "linear" /\ r.w = 0 THEN "panic" ELSE Branch(cfg)
    /\ UNCHANGED <<cfg, tie, dsvars, img, lineNo, idxes, out, txvars, uivars>>

\* mutant of ScanLine: the pixels are read from rgba, the buffer being
\* written, not from the clone
ScanLine_live ==
    /\ pc \in {"ellipse", "sine", "angled", "linear"}
    /\ lineNo < NLines(rgba.w, rgba.h, cfg)
    /\ \E cs \in {LineIdxes(rgba.w, rgba.h, cfg, lineNo)} :
          /\ idxes' = cs
          /\ IF \A j \in 1..Len(cs) : InBounds(rgba, cs[j])
             THEN \E ps \in {[j \in 1..Len(cs) |-> get_pixel(rgba, cs[j])]} :
                  \E sorted \in {do_sort(cfg, tie, ps)} :
                      /\ pixels' = sorted
                      /\ orig' = ps
                      /\ rgba' = put_pixels(rgba, cs, sorted)
                      /\ pc' = pc
             ELSE /\ pc' = "panic"
                  /\ UNCHANGED <<pixels, orig, rgba>>
    /\ lineNo' = lineNo + 1
    /\ UNCHANGED <<cfg, tie, ctr, sortedIdx, skippedIdx, img, rgba_c, out, txvars, uivars>>

\* One iteration of the loop of the arm: the coordinates, the pixels read
\* from the clone, do_sort, the pixels written to rgba.  get_pixel and
\* put_pixel panic on a coordinate outside the buffer.
ScanLine ==
    /\ pc \in {"ellipse", "sine", "angled", "linear"}
    /\ lineNo < NLines(rgba.w, rgba.h, cfg)
    /\ \E cs \in {LineIdxes(rgba.w, rgba.h, cfg, lineNo)} :
          /\ idxes' = cs
          /\ IF \A j \in 1..Len(cs) : InBounds(rgba, cs[j])
             THEN \E ps \in {[j \in 1..Len(cs) |-> get_pixel(rgba_c, cs[j])]} :
                  \E sorted \in {do_sort(cfg, tie, ps)} :
                      /\ pixels' = sorted
                      /\ orig' = ps
                      /\ rgba' = put_pixels(rgba, cs, sorted)
                      /\ pc' = pc
             ELSE /\ pc' = "panic"
                  /\ UNCHANGED <<pixels, orig, rgba>>
    /\ lineNo' = lineNo + 1
    /\ UNCHANGED <<cfg, tie, ctr, sortedIdx, skippedIdx, img, rgba_c, out, txvars, uivars>>

\* mutant of Finish: the post-rotation forgotten
Finish_unrotated ==
    /\ pc \in {"ellipse", "sine", "angled", "linear"}
    /\ ~(lineNo < NLines(rgba.w, rgba.h, cfg))
    /\ out' = rgba
    /\ pc' = "done"
    /\ UNCHANGED <<cfg, tie, dsvars, img, rgba, rgba_c, lineNo, idxes, txvars, uivars>>

\* lib.rs 342-348: the loop is over; the post-rotation and the return
Finish ==
    /\ pc \in {"ellipse", "sine", "angled", "linear"}
    /\ ~(lineNo < NLines(rgba.w, rgba.h, cfg))
    /\ out' = IF cfg.vertical THEN rotate270(rgba) ELSE rgba
    /\ pc' = "done"
    /\ UNCHANGED <<cfg, tie, dsvars, img, rgba, rgba_c, lineNo, idxes, txvars, uivars>>

Next == Begin \/ ScanLine \/ Finish

Spec == Init /\ [][Next]_vars

---------------------------------------------------------------------------
(* Text.  A &str is modelled by the sequence of its characters, each a     *)
(* one-character string; str::trim, str::starts_with, str::split and       *)
(* str::parse::<f32> work on that sequence as the library documents them.  *)

Digits == <<"0", "1", "2", "3", "4", "5", "6", "7", "8", "9">>

IsDigit(ch) == \E i \in 1..10 : Digits[i] = ch
DigitVal(ch) == (CHOOSE i \in 1..10 : Digits[i] = ch) - 1
AllDigits(s) == \A i \in 1..Len(s) : IsDigit(s[i])

\* the number written by a sequence of decimal digits
RECURSIVE DigitsValue(_)
DigitsValue(s) ==
    IF s = << >> THEN 0
    ELSE 10 * DigitsValue(SubSeq(s, 1, Len(s) - 1)) + DigitVal(s[Len(s)])

RECURSIVE Pow10(_)
Pow10(n) == IF n = 0 THEN 1 ELSE 10 * Pow10(n - 1)

\* the first position of ch in s, 0 if there is none
IndexOf(s, ch) ==
    IF \E i \in 1..Len(s) : s[i] = ch
    THEN SetMin({i \in 1..Len(s) : s[i] = ch})
    ELSE 0

\* char::to_ascii_lowercase, for the letters of the texts of the model
Lower(ch) ==
    CASE ch = "N" -> "n" [] ch = "A" -> "a" [] ch = "I" -> "i"
      [] ch = "F" -> "f" [] ch = "E" -> "e" [] ch = "T" -> "t"
      [] ch = "Y" -> "y" [] OTHER -> ch

LowerAll(s) == [i \in 1..Len(s) |-> Lower(s[i])]

IsSpace(ch) == ch \in {" ", "\t", "\n"}

\* str::trim
RECURSIVE trim_start(_)
trim_start(s) ==
    IF s # << >> /\ IsSpace(Head(s)) THEN trim_start(Tail(s)) ELSE s
RECURSIVE trim_end(_)
trim_end(s) ==
    IF s # << >> /\ IsSpace(s[Len(s)]) THEN trim_end(SubSeq(s, 1, Len(s) - 1)) ELSE s
trim(s) == trim_end(trim_start(s))

\* str::starts_with, str::ends_with
starts_with(s, p) == Len(s) >= Len(p) /\ SubSeq(s, 1, Len(p)) = p
ends_with(s, p) == Len(s) >= Len(p) /\ SubSeq(s, Len(s) - Len(p) + 1, Len(s)) = p

\* &s[n..]
From(s, n) == SubSeq(s, n + 1, Len(s))

\* str::split(ch): the pieces between the separators, at least one
RECURSIVE split(_, _)
split(s, ch) ==
    IF IndexOf(s, ch) = 0 THEN <<s>>
    ELSE <<SubSeq(s, 1, IndexOf(s, ch) - 1)>> \o split(From(s, IndexOf(s, ch)), ch)

\* the sign of a number text and the text after the sign
SignOf(t) == IF t # << >> /\ t[1] = "-" THEN -1 ELSE 1
Unsigned(t) == IF t # << >> /\ t[1] \in {"+", "-"} THEN Tail(t) ELSE t

\* the text before ch, all of it if there is no ch; the text after ch,
\* nothing if there is no ch
Before(s, ch) == IF IndexOf(s, ch) = 0 THEN s ELSE SubSeq(s, 1, IndexOf(s, ch) - 1)
After(s, ch) == IF IndexOf(s, ch) = 0 THEN << >> ELSE From(s, IndexOf(s, ch))

\* the value of the digits ip.fp times ten to the power e, as floor(v * FP)
Scaled(n, k) ==
    IF k >= 0 THEN (n * FP) \div Pow10(k) ELSE n * FP * Pow10(-k)

\* a decimal number: digits ip, a point and digits fp or none, an exponent
\* ex or none (hasExp)
parse_decimal(sign, ip, fp, hasExp, ex) ==
    IF /\ AllDigits(ip) /\ AllDigits(fp) /\ Len(ip) + Len(fp) > 0
       /\ hasExp => (Unsigned(ex) # << >> /\ AllDigits(Unsigned(ex)))
    THEN Ok(sign * Scaled(DigitsValue(ip \o fp),
                          Len(fp) - SignOf(ex) * DigitsValue(Unsigned(ex))))
    ELSE Err("ParseFloatError")

\* the text after the sign, in lower case
parse_unsigned(sign, low) ==
    IF low \in {<<"i", "n", "f">>, <<"i", "n", "f", "i", "n", "i", "t", "y">>}
    THEN Ok(sign * INFINITY)
    ELSE IF low = <<"n", "a", "n">> THEN Ok(NAN)
    ELSE parse_decimal(sign,
                       Before(Before(low, "e"), "."), After(Before(low, "e"), "."),
                       IndexOf(low, "e") # 0, After(low, "e"))

\* str::parse::<f32>: an optional sign, then inf, infinity or nan in any
\* case, or decimal digits with at most one point and an optional exponent;
\* no white space.  A finite value v is returned as floor(v * FP).
parse_f32(t) == parse_unsigned(SignOf(t), LowerAll(Unsigned(t)))

\* check_angle (lib.rs 16-25)
check_angle(angle) ==
    LET ang == parse_f32(angle)
    IN  IF ~ang.ok THEN Err("Could not parse as a number")
        ELSE IF FGe(ang.v, 90 * FP) \/ FLe(ang.v, -90 * FP)
        THEN Err("Rotation angle must be between -90 and +90 degrees")
        ELSE Ok(<< >>)

---------------------------------------------------------------------------
(* src/path.rs: Shape::from_str.                                           *)

Linear == [shape |-> "Linear"]

\* DEFAULT_AMP, DEFAULT_LAMBDA, DEFAULT_CENTER (path.rs 3-5)
DEFAULT_AMP == 25 * FP
DEFAULT_LAMBDA == 50 * FP
DEFAULT_CENTER == <<FP \div 2, FP \div 2>>

\* path.rs 7-15
DEFAULT_SINE == Sine(DEFAULT_AMP, DEFAULT_LAMBDA, 0)
DEFAULT_ELL == Ellipse(0, DEFAULT_CENTER[1], DEFAULT_CENTER[2])

\* the names matched by from_str
line_    == <<"l", "i", "n", "e">>
linear_  == <<"l", "i", "n", "e", "a", "r">>
sine_    == <<"s", "i", "n", "e">>
circle_  == <<"c", "i", "r", "c", "l", "e">>
ellipse_ == <<"e", "l", "l", "i", "p", "s", "e">>

\* the bracket pairs of unwrap_parens (path.rs 42-45)
Brackets == {<<"(", ")">>, <<"[", "]">>, <<"{", "}">>, <<"<", ">">>}

\* mutant of unwrap_parens: only the opening bracket is tested
unwrap_parens_open_only(s) ==
    LET st == trim(s)
    IN  IF \E b \in Brackets : starts_with(st, <<b[1]>>)
        THEN Ok(SubSeq(st, 2, Len(st) - 1))
        ELSE Err(<< >>)

\* unwrap_parens (path.rs 39-51)
unwrap_parens(s) ==
    LET st == trim(s)
    IN  IF \E b \in Brackets : starts_with(st, <<b[1]>>) /\ ends_with(st, <<b[2]>>)
        THEN Ok(SubSeq(st, 2, Len(st) - 1))
        ELSE Err(<< >>)

\* format!("Could not parse `{}` as a valid path shape", st): the format
\* string (it sets the argument between backquotes) and its argument
err_msg(st) == [fmt |-> "Could not parse {} as a valid path shape", arg |-> st]

\* unwrap_parens(..)?.split(',').map(|a| a.trim().parse::<f32>())
\*     .collect::<Result<Vec<_>, _>>(): the arguments, or Err
parse_args(rest) ==
    LET inner == unwrap_parens(rest)
    IN  IF ~inner.ok THEN Err(<< >>)
        ELSE LET parts == split(inner.v, ",")
                 vals  == [i \in 1..Len(parts) |-> parse_f32(trim(parts[i]))]
             IN  IF \E i \in 1..Len(vals) : ~vals[i].ok THEN Err(<< >>)
                 ELSE Ok([i \in 1..Len(vals) |-> vals[i].v])

\* mutant of sine_args: the second argument is taken for the offset
sine_args_swapped(args, st) ==
    CASE Len(args) = 0 -> Ok(DEFAULT_SINE)
      [] Len(args) = 1 -> Ok(Sine(args[1], DEFAULT_LAMBDA, 0))
      [] Len(args) = 2 -> Ok(Sine(args[1], DEFAULT_LAMBDA, args[2]))
      [] Len(args) = 3 -> Ok(Sine(args[1], args[2], args[3]))
      [] OTHER -> Err(err_msg(st))

\* match args.len() of the sine arm (path.rs 71-89)
sine_args(args, st) ==
    CASE Len(args) = 0 -> Ok(DEFAULT_SINE)
      [] Len(args) = 1 -> Ok(Sine(args[1], DEFAULT_LAMBDA, 0))
      [] Len(args) = 2 -> Ok(Sine(args[1], args[2], 0))
      [] Len(args) = 3 -> Ok(Sine(args[1], args[2], args[3]))
      [] OTHER -> Err(err_msg(st))

\* match args.len() of the circle arm (path.rs 97-104)
circle_args(args, st) ==
    CASE Len(args) = 0 -> Ok(DEFAULT_ELL)
      [] Len(args) = 2 -> Ok(Ellipse(0, args[1], args[2]))
      [] OTHER -> Err(err_msg(st))

\* match args.len() of the ellipse arm (path.rs 112-127)
ellipse_args(args, st) ==
    CASE Len(args) = 0 -> Ok(DEFAULT_ELL)
      [] Len(args) = 1 -> Ok(Ellipse(args[1], DEFAULT_CENTER[1], DEFAULT_CENTER[2]))
      [] Len(args) = 2 -> Ok(Ellipse(0, args[1], args[2]))
      [] Len(args) = 3 -> Ok(Ellipse(args[1], args[2], args[3]))
      [] OTHER -> Err(err_msg(st))

\* Shape::from_str (path.rs 56-133)
from_str(s) ==
    LET st == trim(s)
        Arm(name, Args(_, _)) ==
            LET args == parse_args(From(st, Len(name)))
            IN  IF ~args.ok THEN Err(err_msg(st)) ELSE Args(args.v, st)
    IN  CASE st \in {<< >>, line_, linear_} -> Ok(Linear)
          [] st = sine_ -> Ok(DEFAULT_SINE)
          [] st \in {circle_, ellipse_} -> Ok(DEFAULT_ELL)
          [] OTHER ->
               IF starts_with(st, sine_) THEN Arm(sine_, sine_args)
               ELSE IF starts_with(st, circle_) THEN Arm(circle_, circle_args)
               ELSE IF starts_with(st, ellipse_) THEN Arm(ellipse_, ellipse_args)
               ELSE Err(err_msg(st))

---------------------------------------------------------------------------
(* SpecText: Shape::from_str and check_angle applied to one text.          *)

\* most arguments between the brackets of a text
MaxArgs == 4

\* texts of arguments: 1, 0.5, 2 between spaces, -3, a letter, nothing
ArgTexts ==
    { <<"1">>, <<"0", ".", "5">>, <<" ", "2", " ">>, <<"-", "3">>, <<"x">>, << >> }

\* the lists of 1 to n texts of S
ListsUpTo(S, n) == UNION {[1..k -> S] : k \in 1..n}

\* the texts of a list, with commas between them
RECURSIVE Join(_)
Join(l) ==
    IF Len(l) = 1 THEN l[1] ELSE l[1] \o <<",">> \o Join(Tail(l))

\* names: the five the code knows, a prefix of one, one with trailing text,
\* one it does not know
NameTexts ==
    { line_, linear_, sine_, circle_, ellipse_,
      <<"s", "i", "n">>, sine_ \o <<"s">>, <<"w", "a", "v", "e">> }

\* what follows the name: the four pairs, an unmatched pair, a bracket
\* missing at either end
BracketTexts ==
    Brackets \cup {<<"(", "]">>, <<"(", "">>, <<"", ")">>}

Bracketed(b, inner) ==
    (IF b[1] = "" THEN << >> ELSE <<b[1]>>) \o inner
        \o (IF b[2] = "" THEN << >> ELSE <<b[2]>>)

ShapeTexts ==
    NameTexts
    \cup {<< >>, <<" ">>, <<" ">> \o sine_ \o <<" ">>, sine_ \o <<"(", ")">>,
          sine_ \o <<" ", "(", "1", ")">>, sine_ \o <<"(", "N", "a", "N", ")">>,
          sine_ \o <<"(", "(", "1", ")", ")">>, ellipse_ \o <<"(", "i", "n", "f", ")">>,
          <<" ", "w", "a", "v", "e", " ">>}
    \cup {n \o Bracketed(b, Join(l)) :
            n \in {sine_, ellipse_}, b \in BracketTexts, l \in ListsUpTo(ArgTexts, MaxArgs)}
    \cup {n \o Bracketed(b, Join(l)) :
            n \in {line_, circle_, <<"w", "a", "v", "e">>}, b \in {<<"(", ")">>},
            l \in ListsUpTo({<<"1">>, <<"-", "3">>}, 3)}

AngleTexts ==
    { <<"0">>, <<"3", "0">>, <<"-", "4", "5">>, <<"8", "9">>, <<"8", "9", ".", "5">>,
      <<"-", "8", "9", ".", "9">>, <<"9", "0">>, <<"-", "9", "0">>, <<"9", "0", ".", "5">>,
      <<"1", "2", "0">>, <<"-", "1", "2", "0">>, <<"9", "e", "1">>, <<"1", "e", "1">>,
      <<"+", "4", "5">>, <<".", "5">>, <<"N", "a", "N">>, <<"i", "n", "f">>,
      <<"-", "i", "n", "f">>, <<"a", "b", "c">>, << >>, <<" ", "3", "0">>,
      <<"4", " ", "5">>, <<"3", "0", "d", "e", "g">>, <<"-">>, <<".">> }

\* the variables of do_sort and sort while they are not in use
NoPass ==
    /\ pixels = << >> /\ orig = << >> /\ ctr = 0
    /\ sortedIdx = {} /\ skippedIdx = {}
    /\ img = NoImage /\ rgba = NoImage /\ rgba_c = NoImage /\ out = NoImage
    /\ lineNo = 0 /\ idxes = << >>

InitText ==
    /\ \/ pc = "from_str" /\ text \in ShapeTexts
       \/ pc = "check_angle" /\ text \in AngleTexts
    /\ result = None
    /\ cfg = DefaultConfig /\ tie = "keep"
    /\ NoPass
    /\ input = None /\ output = None /\ tasks = << >> /\ nmsg = 0

\* Shape::from_str(text)
FromStr ==
    /\ pc = "from_str"
    /\ result' = from_str(text)
    /\ pc' = "parsed"
    /\ UNCHANGED <<cfg, tie, dsvars, imvars, text, uivars>>

\* check_angle(text)
CheckAngle ==
    /\ pc = "check_angle"
    /\ result' = check_angle(text)
    /\ pc' = "checked"
    /\ UNCHANGED <<cfg, tie, dsvars, imvars, text, uivars>>

NextText == FromStr \/ CheckAngle

SpecText == InitText /\ [][NextText]_vars

---------------------------------------------------------------------------
(* SpecConfigure: the two ways a Config is made and used.  The command     *)
(* line: the arguments pass the validators of the StructOpt derive         *)
(* (lib.rs 31-76) and the Config is handed to Config::sort.  The web UI    *)
(* (examples/www/src/main.rs): Root::create, then Root::update once per    *)
(* message; Msg::DoSort runs Config::sort to its end before the next       *)
(* message is handled.                                                     *)

\* messages handled by Root::update in one behaviour
MaxMsgs == 4

\* str::parse::<u8>: an optional +, decimal digits, at most 255
parse_u8(t) ==
    LET d == IF t # << >> /\ t[1] = "+" THEN Tail(t) ELSE t
    IN  IF d = << >> \/ ~AllDigits(d) THEN Err("ParseIntError")
        ELSE IF Len(d) > 3 /\ \E i \in 1..(Len(d) - 3) : d[i] # "0" THEN Err("ParseIntError")
        ELSE IF DigitsValue(d) > 255 THEN Err("ParseIntError")
        ELSE Ok(DigitsValue(d))

\* the derive of EnumString with serialize_all = "snake_case"
\* (heuristic.rs 63-79): the names from_str matches
HeuristicNames ==
    { <<<<"l", "u", "m", "a">>, "Luma">>,
      <<<<"b", "r", "i", "g", "h", "t", "n", "e", "s", "s">>, "Brightness">>,
      <<<<"m", "a", "x">>, "Max">>,
      <<<<"m", "i", "n">>, "Min">>,
      <<<<"c", "h", "r", "o", "m", "a">>, "Chroma">>,
      <<<<"h", "u", "e">>, "Hue">>,
      <<<<"s", "a", "t", "u", "r", "a", "t", "i", "o", "n">>, "Saturation">>,
      <<<<"v", "a", "l", "u", "e">>, "Value">>,
      <<<<"r", "e", "d">>, "Red">>,
      <<<<"b", "l", "u", "e">>, "Blue">>,
      <<<<"g", "r", "e", "e", "n">>, "Green">> }

\* Heuristic::from_str
parse_heuristic(t) ==
    IF \E n \in HeuristicNames : n[1] = t
    THEN Ok((CHOOSE n \in HeuristicNames : n[1] = t)[2])
    ELSE Err("VariantNotFound")

\* the bytes of a file: an image in a format, or bytes that are no image
Garbage == [fmt |-> "none"]
Encoded(fmt, image) == [fmt |-> fmt, img |-> image]

\* mime types: the text of File::mime
image_png == <<"i", "m", "a", "g", "e", "/", "p", "n", "g">>
image_jpg == <<"i", "m", "a", "g", "e", "/", "j", "p", "g">>

\* the match on ext of Msg::DoSort (main.rs 91-99); the formats of the
\* model's files
FormatOf(ext) ==
    CASE ext = <<"p", "n", "g">> -> Some("png")
      [] ext \in {<<"j", "p", "g">>, <<"j", "p", "e", "g">>} -> Some("jpeg")
      [] OTHER -> None

\* image::load_from_memory and load_from_memory_with_format (main.rs 100-103)
load_from_memory(content, fmt) ==
    IF content = Garbage THEN Err("ImageError")
    ELSE IF fmt.some /\ fmt.v # content.fmt THEN Err("ImageError")
    ELSE Ok(content.img)

\* the files the user can choose: a PNG with its mime type, the same PNG
\* without one, and a file that is no image
TwoPixels == Image(2, 1, << <<200, 50, 10, 255>>, <<50, 50, 50, 255>> >>)
Files ==
    { [content |-> Encoded("png", TwoPixels), mime |-> Some(image_png)],
      [content |-> Encoded("png", TwoPixels), mime |-> None],
      [content |-> Garbage, mime |-> Some(image_png)] }

\* the texts of the form fields
AngleFieldTexts ==
    { <<"3", "0">>, <<"1", "2", "0">>, <<"N", "a", "N">>, <<"a", "b", "c">> }
ShapeOptions == { Some(linear_), Some(sine_), Some(ellipse_), None }
ParamTexts == { <<"1">>, <<"x">> }
FunctionOptions == { Some(<<"r", "e", "d">>), Some(<<"r", "e", "d", "s">>), None }
ByteTexts == { <<"5", "0">>, <<"2", "5", "6">> }

\* the arguments of the command line: --angle and --path
ArgAngleTexts ==
    { <<"0">>, <<"3", "0">>, <<"-", "4", "5">>, <<"9", "0">>, <<"-", "9", "0">>,
      <<"1", "2", "0">>, <<"N", "a", "N">>, <<"i", "n", "f">>, <<"a", "b", "c">> }
ArgPathTexts ==
    { line_, sine_, ellipse_ \o <<"(", "1", ")">>, sine_ \o <<"(", "x", ")">> }

InitConfigure ==
    /\ pc = "start"
    /\ cfg = DefaultConfig /\ tie = "keep"
    /\ NoPass
    /\ Unused

\* Config::from_args, then Config::sort on the image of the command line: the
\* validator check_angle and Shape::from_str decide whether there is a Config
FromArgs ==
    /\ pc = "start"
    /\ \E a \in ArgAngleTexts, p \in ArgPathTexts :
       \E checked \in {check_angle(a)}, shape \in {from_str(p)} :
          /\ text' = a
          /\ result' = checked
          /\ IF checked.ok /\ shape.ok
             THEN /\ cfg' = [DefaultConfig EXCEPT !.angle = parse_f32(a).v,
                                                  !.path = shape.v]
                  /\ img' = TwoPixels
                  /\ pc' = "sort"
             ELSE /\ pc' = "rejected"
                  /\ UNCHANGED <<cfg, img>>
    /\ UNCHANGED <<tie, dsvars, rgba, rgba_c, lineNo, idxes, out, uivars>>

\* Root::create (main.rs 55-64)
Create ==
    /\ pc = "start"
    /\ cfg' = DefaultConfig
    /\ input' = None /\ output' = None /\ tasks' = << >>
    /\ pc' = "idle"
    /\ UNCHANGED <<tie, dsvars, imvars, txvars, nmsg>>

\* Root::update is handed a message and returns to the event loop
Update ==
    /\ pc = "idle"
    /\ nmsg < MaxMsgs
    /\ nmsg' = nmsg + 1
    /\ UNCHANGED <<pc, tie, dsvars, imvars, txvars>>

\* Msg::ChooseFile(ChangeData::Files(files)) (main.rs 68-80)
ChooseFile ==
    /\ Update
    /\ \E f \in Files : tasks' = Append(tasks, [file |-> f, active |-> TRUE])
    /\ UNCHANGED <<cfg, input, output>>

\* a ReaderTask ends and its callback sends Msg::LoadedFile(fd, mime)
\* (main.rs 75, 81-88); ext is mime[6..]
LoadedFile ==
    /\ Update
    /\ \E n \in 1..Len(tasks) :
          /\ tasks[n].active
          /\ \E mime \in {IF tasks[n].file.mime.some THEN tasks[n].file.mime.v
                           ELSE image_jpg} :
                input' = Some([content |-> tasks[n].file.content, mime |-> mime,
                               ext |-> From(mime, 6)])
          /\ tasks' = [tasks EXCEPT ![n].active = FALSE]
    /\ UNCHANGED <<cfg, output>>

\* Msg::DoSort (main.rs 89-115): without an input, or with one that does not
\* load, nothing happens; otherwise self.cfg.sort(img) runs
DoSort ==
    /\ pc = "idle"
    /\ nmsg < MaxMsgs
    /\ nmsg' = nmsg + 1
    /\ \E loaded \in {IF input.some
                       THEN load_from_memory(input.v.content, FormatOf(input.v.ext))
                       ELSE Err("None")} :
          IF loaded.ok
          THEN /\ img' = loaded.v
               /\ lineNo' = 0
               /\ pc' = "sort"
          ELSE UNCHANGED <<img, lineNo, pc>>
    /\ UNCHANGED <<cfg, tie, dsvars, rgba, rgba_c, idxes, out, txvars,
                   input, output, tasks>>

\* Config::sort returned to Msg::DoSort: write_to(PNG) and the data URL
\* (main.rs 104-112); to the command line: the end
Written ==
    /\ pc = "done"
    /\ IF input.some THEN /\ output' = Some(Encoded("png", out))
                          /\ pc' = "idle"
       ELSE /\ pc' = "exit"
            /\ UNCHANGED output
    /\ UNCHANGED <<cfg, tie, dsvars, imvars, txvars, input, tasks, nmsg>>

\* Msg::ChangeAngle(ChangeData::Value(s)) (main.rs 116-120)
ChangeAngle ==
    /\ Update
    /\ \E s \in AngleFieldTexts : \E v \in {parse_f32(s)} :
          cfg' = IF v.ok THEN [cfg EXCEPT !.angle = v.v] ELSE cfg
    /\ UNCHANGED <<input, output, tasks>>

\* Msg::ToggleRotate (main.rs 121)
ToggleRotate ==
    /\ Update
    /\ cfg' = [cfg EXCEPT !.vertical = ~cfg.vertical]
    /\ UNCHANGED <<input, output, tasks>>

\* Msg::ChangeShapeType(ChangeData::Select(s)) (main.rs 122-128)
ChangeShapeType ==
    /\ Update
    /\ \E s \in ShapeOptions : \E t \in {IF s.some THEN from_str(s.v) ELSE Err(<< >>)} :
          cfg' = IF t.ok THEN [cfg EXCEPT !.path = t.v] ELSE cfg
    /\ UNCHANGED <<input, output, tasks>>

\* the arms that change one parameter of the current shape (main.rs 129-211):
\* the path is of the shape of the arm and the text parses, or nothing changes
ChangeParam(shape, Set(_, _)) ==
    \E s \in ParamTexts : \E v \in {parse_f32(s)} :
        cfg' = IF cfg.path.shape = shape /\ v.ok
               THEN [cfg EXCEPT !.path = Set(cfg.path, v.v)]
               ELSE cfg

SetAmplitude(p, v) == Sine(v, p.lambda, p.offset)
SetLambda(p, v) == Sine(p.amplitude, v, p.offset)
SetOffset(p, v) == Sine(p.amplitude, p.lambda, v)
SetEccentricity(p, v) == Ellipse(v, p.center[1], p.center[2])
SetCenterX(p, v) == Ellipse(p.eccentricity, v, p.center[2])
SetCenterY(p, v) == Ellipse(p.eccentricity, p.center[1], v)

\* Msg::ChangeSineAmplitude (main.rs 129-139)
ChangeSineAmplitude ==
    /\ Update
    /\ ChangeParam("Sine", SetAmplitude)
    /\ UNCHANGED <<input, output, tasks>>
\* Msg::ChangeSineLambda (main.rs 140-154)
ChangeSineLambda ==
    /\ Update
    /\ ChangeParam("Sine", SetLambda)
    /\ UNCHANGED <<input, output, tasks>>
\* Msg::ChangeSineOffset (main.rs 155-169)
ChangeSineOffset ==
    /\ Update
    /\ ChangeParam("Sine", SetOffset)
    /\ UNCHANGED <<input, output, tasks>>
\* Msg::ChangeEllipseEccentricity (main.rs 170-179)
ChangeEllipseEccentricity ==
    /\ Update
    /\ ChangeParam("Ellipse", SetEccentricity)
    /\ UNCHANGED <<input, output, tasks>>
\* mutant of ChangeEllipseCenterX: the new value is stored in both
\* coordinates of the center
ChangeEllipseCenterX_both ==
    /\ Update
    /\ ChangeParam("Ellipse", LAMBDA p, v : Ellipse(p.eccentricity, v, v))
    /\ UNCHANGED <<input, output, tasks>>
\* Msg::ChangeEllipseCenterX (main.rs 180-195)
ChangeEllipseCenterX ==
    /\ Update
    /\ ChangeParam("Ellipse", SetCenterX)
    /\ UNCHANGED <<input, output, tasks>>
\* Msg::ChangeEllipseCenterY (main.rs 196-211)
ChangeEllipseCenterY ==
    /\ Update
    /\ ChangeParam("Ellipse", SetCenterY)
    /\ UNCHANGED <<input, output, tasks>>

\* Msg::ChangeFunction(ChangeData::Select(s)) (main.rs 212-218)
ChangeFunction ==
    /\ Update
    /\ \E s \in FunctionOptions :
          \E t \in {IF s.some THEN parse_heuristic(s.v) ELSE Err(<< >>)} :
              cfg' = IF t.ok THEN [cfg EXCEPT !.function = t.v] ELSE cfg
    /\ UNCHANGED <<input, output, tasks>>

\* Msg::ToggleReverse (main.rs 219)
ToggleReverse ==
    /\ Update
    /\ cfg' = [cfg EXCEPT !.reverse = ~cfg.reverse]
    /\ UNCHANGED <<input, output, tasks>>

\* Msg::ToggleAlpha (main.rs 220)
ToggleAlpha ==
    /\ Update
    /\ cfg' = [cfg EXCEPT !.mask_alpha = ~cfg.mask_alpha]
    /\ UNCHANGED <<input, output, tasks>>

\* Msg::ChangeMin(ChangeData::Value(s)) (main.rs 221-225)
ChangeMin ==
    /\ Update
    /\ \E s \in ByteTexts : \E v \in {parse_u8(s)} :
          cfg' = IF v.ok THEN [cfg EXCEPT !.minimum = v.v] ELSE cfg
    /\ UNCHANGED <<input, output, tasks>>

\* Msg::ChangeMax(ChangeData::Value(s)) (main.rs 226-230)
ChangeMax ==
    /\ Update
    /\ \E s \in ByteTexts : \E v \in {parse_u8(s)} :
          cfg' = IF v.ok THEN [cfg EXCEPT !.maximum = v.v] ELSE cfg
    /\ UNCHANGED <<input, output, tasks>>

\* Msg::ToggleInvert (main.rs 231)
ToggleInvert ==
    /\ Update
    /\ cfg' = [cfg EXCEPT !.invert = ~cfg.invert]
    /\ UNCHANGED <<input, output, tasks>>

\* a message whose ChangeData is of another variant: the arm _ (main.rs 232)
OtherMsg ==
    /\ Update
    /\ UNCHANGED <<cfg, input, output, tasks>>

NextConfigure ==
    \/ FromArgs \/ Create
    \/ ChooseFile \/ LoadedFile \/ DoSort \/ Written
    \/ ChangeAngle \/ ToggleRotate \/ ChangeShapeType
    \/ ChangeSineAmplitude \/ ChangeSineLambda \/ ChangeSineOffset
    \/ ChangeEllipseEccentricity \/ ChangeEllipseCenterX \/ ChangeEllipseCenterY
    \/ ChangeFunction \/ ToggleReverse \/ ToggleAlpha
    \/ ChangeMin \/ ChangeMax \/ ToggleInvert \/ OtherMsg
    \/ Begin \/ ScanLine \/ Finish

SpecConfigure == InitConfigure /\ [][NextConfigure]_vars

---------------------------------------------------------------------------
(* SpecKey: the key function of one Heuristic applied to one pixel.        *)

\* channel values: the ends of the range, the small values, and the values
\* around the thirds and the half of 255
Channels == {0, 1, 2, 3, 43, 85, 127, 128, 170, 254, 255}

Alphas == {0, 255}

KeyPixels == {<<r, g, b, a>> : r \in Channels, g \in Channels, b \in Channels, a \in Alphas}

\* self and the pixel of (self.func())(pixel): pixels holds the one pixel
InitKey ==
    /\ pc = "func"
    /\ cfg \in {[DefaultConfig EXCEPT !.function = h] : h \in Heuristics \cup {Nonexhaustive}}
    /\ pixels \in {<<p>> : p \in KeyPixels}
    /\ orig = pixels /\ ctr = 0 /\ sortedIdx = {} /\ skippedIdx = {}
    /\ img = NoImage /\ rgba = NoImage /\ rgba_c = NoImage /\ out = NoImage
    /\ lineNo = 0 /\ idxes = << >>
    /\ tie = "keep"
    /\ Unused

\* (self.func())(&pixel): the key, or a panic
Func ==
    /\ pc = "func"
    /\ \E key \in {func(cfg.function, pixels[1])} :
          result' = IF key = PANIC THEN Err("panic") ELSE Ok(key)
    /\ pc' = "key"
    /\ UNCHANGED <<cfg, tie, dsvars, imvars, text, uivars>>

NextKey == Func

SpecKey == InitKey /\ [][NextKey]_vars

---------------------------------------------------------------------------
(* The arm of Shape::Linear with angle != 0 (lib.rs 273-307) on an image   *)
(* of more than 2^25 rows, with `xv as f32`, `row_idx as f32`, the product *)
(* and the sum of lib.rs 291 rounded as f32 rounds them.  The image is     *)
(* held for a window only: the rows from TallFirst on and the coordinates  *)
(* their scan lines map to; no earlier row maps to one of them.            *)

\* the significand of an f32 holds 24 bits
MantissaBits == 24

\* the distance between neighbouring f32 values at magnitude v >= 0
RECURSIVE Ulp(_)
Ulp(v) == IF v < 2^MantissaBits THEN 1 ELSE 2 * Ulp(v \div 2)

\* a whole number rounded to the nearest f32, ties to the even significand
F32(v) ==
    LET a == IF v < 0 THEN 0 - v ELSE v
        u == Ulp(a)
        q == a \div u
        r == a % u
        m == IF 2 * r < u \/ (2 * r = u /\ q % 2 = 0) THEN q * u ELSE (q + 1) * u
    IN  IF v < 0 THEN 0 - m ELSE m

\* the coordinates of slanted row row_idx (lib.rs 290-293); the angles drawn
\* for the tall image have a whole tangent
TallIdxes(w, h, c, row_idx) ==
    LET tan  == AngleTan(c) \div FP
        Y(x) == \* (xv as f32 * tan + row_idx as f32) as u32
                LET v == F32(F32(F32(x) * tan) + F32(row_idx))
                IN  IF v < 0 THEN 0 ELSE v
        all  == [j \in 1..w |-> <<j - 1, Y(j - 1)>>]
        Keep(xy) == xy[2] > 0 /\ xy[2] < h
    IN  SelectSeq(all, Keep)

\* the first row_idx of the window
TallFirst == 2^(MantissaBits + 1) - 2

\* the coordinates the rows of the window map to
TallCoords(w, h, c) ==
    UNION {{TallIdxes(w, h, c, r)[j] : j \in 1..Len(TallIdxes(w, h, c, r))} :
              r \in TallFirst..(h - 1)}

\* the write-back loop (lib.rs 300-302) on the window
TallPut(b, cs, ps) ==
    Image(b.w, b.h,
          [xy \in DOMAIN b.px |->
              LET js == {j \in 1..Len(cs) : cs[j] = xy}
              IN  IF js = {} THEN b.px[xy] ELSE ps[SetMax(js)]])

TallHeights == {2^(MantissaBits + 1) + 1, 2^(MantissaBits + 1) + 2}

InitTall ==
    /\ tie = "keep"
    /\ cfg \in {[DefaultConfig EXCEPT !.angle = 45 * FP, !.reverse = rev] :
                  rev \in BOOLEAN}
    /\ img \in UNION {{Image(2, h, px) : px \in [TallCoords(2, h, cfg) -> Palette]} :
                         h \in TallHeights}
    /\ rgba = NoImage /\ rgba_c = NoImage /\ out = NoImage
    /\ lineNo = 0
    /\ idxes = << >>
    /\ pixels = << >> /\ orig = << >> /\ ctr = 0
    /\ sortedIdx = {} /\ skippedIdx = {}
    /\ Unused
    /\ pc = "sort"

\* lib.rs 146, 274-288 and the iterations of the rows before the window,
\* which read and write outside it
TallBefore ==
    /\ pc = "sort"
    /\ rgba' = img
    /\ rgba_c' = img
    /\ lineNo' = TallFirst - AngledFirst(img.w, cfg)
    /\ pc' = "angled"
    /\ UNCHANGED <<cfg, tie, dsvars, img, idxes, out, txvars, uivars>>

\* one iteration of for row_idx in range (lib.rs 289-306)
TallScanLine ==
    /\ pc = "angled"
    /\ AngledFirst(rgba.w, cfg) + lineNo < rgba.h
    /\ \E cs \in {TallIdxes(rgba.w, rgba.h, cfg, AngledFirst(rgba.w, cfg) + lineNo)} :
       \E ps \in {[j \in 1..Len(cs) |-> rgba_c.px[cs[j]]]} :
       \E sorted \in {do_sort(cfg, tie, ps)} :
          /\ idxes' = cs
          /\ pixels' = sorted
          /\ orig' = ps
          /\ rgba' = TallPut(rgba, cs, sorted)
    /\ lineNo' = lineNo + 1
    /\ UNCHANGED <<cfg, tie, ctr, sortedIdx, skippedIdx, img, rgba_c, out, txvars, uivars, pc>>

\* lib.rs 342-348: the loop is over; vertical is false
TallFinish ==
    /\ pc = "angled"
    /\ ~(AngledFirst(rgba.w, cfg) + lineNo < rgba.h)
    /\ out' = rgba
    /\ pc' = "done"
    /\ UNCHANGED <<cfg, tie, dsvars, img, rgba, rgba_c, lineNo, idxes, txvars, uivars>>

NextTall == TallBefore \/ TallScanLine \/ TallFinish

SpecTall == InitTall /\ [][NextTall]_vars

---------------------------------------------------------------------------
(* Properties of Config::do_sort, checked under SpecDoSort.                *)

Returned == pc = "returned"

\* The selection predicate as the specification words it:
\* (key in [minimum, maximum]) XOR invert, and not a masked transparent pixel.
Selected(c, p) ==
    /\ (c.minimum <= sort_fn(c, p) /\ sort_fn(c, p) <= c.maximum) # c.invert
    /\ c.mask_alpha => p[4] # 0

SelectedIdx(c, s) == {i \in 1..Len(s) : Selected(c, s[i])}

\* the maximal runs <<a, b>> of consecutive selected positions of s
MaximalRuns(c, s) ==
    {r \in (1..Len(s)) \X (1..Len(s)) :
        /\ r[1] <= r[2]
        /\ \A i \in r[1]..r[2] : Selected(c, s[i])
        /\ r[1] = 1 \/ ~Selected(c, s[r[1] - 1])
        /\ r[2] = Len(s) \/ ~Selected(c, s[r[2] + 1])}

Keys(c, s) == [i \in 1..Len(s) |-> sort_fn(c, s[i])]

\* C1: do_sort only permutes the scan line: at every point of the loop, and
\* so on return, the multiset of pixel values of the slice is the multiset
\* it was handed.
C1_DoSortPermutes == BagOf(pixels) = BagOf(orig)

\* a returned do_sort that moved pixels, two of them equal
C1_Witness ==
    /\ Returned
    /\ pixels # orig
    /\ \E i, j \in 1..Len(orig) : i # j /\ orig[i] = orig[j]

\* C3: a position is a member of a slice handed to the sort exactly when its
\* pixel is selected as specified, (minimum <= key <= maximum) XOR invert and
\* not masked, and is stepped over by the skip loop exactly when it is not;
\* both bounds are inclusive.
C3_SelectedIffSpecified ==
    /\ \A i \in 1..ctr :
          /\ i \in sortedIdx <=> Selected(cfg, orig[i])
          /\ i \in skippedIdx <=> ~Selected(cfg, orig[i])
    /\ Returned => ctr = Len(orig)
    /\ \A i \in 1..ctr :
          (/\ ~cfg.invert
           /\ cfg.minimum <= cfg.maximum
           /\ sort_fn(cfg, orig[i]) \in {cfg.minimum, cfg.maximum}
           /\ mask_fn(cfg, orig[i])) => i \in sortedIdx

\* invert off, minimum < maximum: a pixel whose key is minimum and one whose
\* key is maximum were sorted, a masked transparent pixel was skipped
C3_Witness ==
    /\ Returned
    /\ ~cfg.invert /\ cfg.mask_alpha /\ cfg.minimum < cfg.maximum
    /\ \E i, j, k \in 1..Len(orig) :
          /\ sort_fn(cfg, orig[i]) = cfg.minimum /\ i \in sortedIdx
          /\ sort_fn(cfg, orig[j]) = cfg.maximum /\ j \in sortedIdx
          /\ orig[k][4] = 0 /\ k \in skippedIdx

\* C4: with mask_alpha a pixel of alpha 0 is never selected: it is never in
\* a slice handed to the sort, no sorted run extends over it (the skip loop
\* steps over it), and it stays at its index.
C4_MaskedTransparentFixed ==
    cfg.mask_alpha =>
        \A i \in 1..Len(orig) :
            orig[i][4] = 0 =>
                /\ i \notin sortedIdx
                /\ pixels[i] = orig[i]
                /\ i <= ctr => i \in skippedIdx

\* a transparent pixel whose key is in the selected range stands between two
\* sorted runs, and the sort moved pixels
C4_Witness ==
    /\ Returned
    /\ cfg.mask_alpha
    /\ pixels # orig
    /\ \E i \in 2..Len(orig) :
          /\ orig[i][4] = 0
          /\ (cfg.minimum <= sort_fn(cfg, orig[i]) /\ sort_fn(cfg, orig[i]) <= cfg.maximum)
                # cfg.invert
          /\ i - 1 \in sortedIdx

\* C5: after do_sort the keys inside every maximal run of selected pixels are
\* non-decreasing, or non-increasing with reverse, and the run's first
\* position holds the run's smallest (largest) key.
C5_RunsOrdered ==
    Returned =>
        \A r \in MaximalRuns(cfg, pixels) :
            /\ \A i \in r[1]..(r[2] - 1) :
                  IF cfg.reverse
                  THEN sort_fn(cfg, pixels[i]) >= sort_fn(cfg, pixels[i + 1])
                  ELSE sort_fn(cfg, pixels[i]) <= sort_fn(cfg, pixels[i + 1])
            /\ \A i \in r[1]..r[2] :
                  IF cfg.reverse
                  THEN sort_fn(cfg, pixels[r[1]]) >= sort_fn(cfg, orig[i])
                  ELSE sort_fn(cfg, pixels[r[1]]) <= sort_fn(cfg, orig[i])

\* reverse on: a run of three pixels with two different keys was reordered
C5_Witness ==
    /\ Returned
    /\ cfg.reverse
    /\ pixels # orig
    /\ \E r \in MaximalRuns(cfg, pixels) :
          /\ r[2] - r[1] >= 2
          /\ sort_fn(cfg, pixels[r[1]]) > sort_fn(cfg, pixels[r[2]])

\* C6: do_sort leaves every non-selected pixel at its index and moves a
\* selected pixel only inside its own maximal run: each run holds the same
\* multiset before and after, the selected positions are the same, and the
\* example of section 8 gives [10,200,60,50,5,210] with reverse and the
\* input itself without.
C6_MovesOnlyInsideRuns ==
    /\ \A i \in 1..Len(orig) : ~Selected(cfg, orig[i]) => pixels[i] = orig[i]
    /\ \A r \in MaximalRuns(cfg, orig) :
          BagOf(SubSeq(pixels, r[1], r[2])) = BagOf(SubSeq(orig, r[1], r[2]))
    /\ SelectedIdx(cfg, pixels) = SelectedIdx(cfg, orig)
    /\ (orig = ExampleLine /\ cfg = ExampleConfig(TRUE)) =>
          /\ MaximalRuns(cfg, orig) = {<<3, 4>>}
          /\ Returned => Keys(cfg, pixels) = <<10, 200, 60, 50, 5, 210>>
    /\ (orig = ExampleLine /\ cfg = ExampleConfig(FALSE)) => pixels = orig

\* the example of section 8 with reverse, sorted
C6_Witness ==
    /\ Returned
    /\ orig = ExampleLine
    /\ cfg = ExampleConfig(TRUE)
    /\ pixels # orig

---------------------------------------------------------------------------
(* Properties of Config::sort, checked under Spec.                         *)

Done == pc = "done"

IsLinear(c) == c.path.shape = "Linear"

\* the values of the pixels of a buffer
Values(b) == {b.px[i] : i \in 1..Len(b.px)}

\* row y of a buffer, left to right
Row(b, y) == [j \in 1..b.w |-> get_pixel(b, <<j - 1, y>>)]

\* every row is non-decreasing by the key of c
RowsSorted(c, b) ==
    \A y \in 0..(b.h - 1) : \A j \in 1..(b.w - 1) :
        sort_fn(c, Row(b, y)[j]) <= sort_fn(c, Row(b, y)[j + 1])

\* no row holds two different pixels with the same key
NoTiesInRows(c, b) ==
    \A y \in 0..(b.h - 1) : \A i, j \in 1..b.w :
        sort_fn(c, Row(b, y)[i]) = sort_fn(c, Row(b, y)[j]) => Row(b, y)[i] = Row(b, y)[j]

\* Linear, angle 0, reverse off, the full range, no inversion, no mask, and
\* no pre-rotation
PlainRowPass(c) ==
    /\ IsLinear(c) /\ c.angle = 0 /\ ~c.vertical
    /\ ~c.reverse /\ c.minimum = 0 /\ c.maximum = 255 /\ ~c.invert /\ ~c.mask_alpha

RECURSIVE LinesFrom(_, _, _, _, _)
LinesFrom(c, t, target, snap, n) ==
    IF ~(n < NLines(target.w, target.h, c)) THEN target
    ELSE LET cs == LineIdxes(target.w, target.h, c, n)
             ps == [j \in 1..Len(cs) |-> get_pixel(snap, cs[j])]
         IN  LinesFrom(c, t, put_pixels(target, cs, do_sort(c, t, ps)), snap, n + 1)

\* rotation by 90 and by 270 degrees clockwise, as geometry defines them:
\* the pixel at (x, y) of a w x h image goes to (h - 1 - y, x), to (y, w - 1 - x)
Turn90(b) ==
    Image(b.h, b.w,
          [i \in 1..(b.w * b.h) |->
              CHOOSE p \in Values(b) :
                  \E x \in 0..(b.w - 1), y \in 0..(b.h - 1) :
                      /\ p = get_pixel(b, <<x, y>>)
                      /\ i = x * b.h + (b.h - 1 - y) + 1])
Turn270(b) ==
    Image(b.h, b.w,
          [i \in 1..(b.w * b.h) |->
              CHOOSE p \in Values(b) :
                  \E x \in 0..(b.w - 1), y \in 0..(b.h - 1) :
                      /\ p = get_pixel(b, <<x, y>>)
                      /\ i = (b.w - 1 - x) * b.h + y + 1])

\* C8: with vertical and an otherwise default Config the returned image is
\* the input turned by 90 degrees, sorted by the pass without vertical, and
\* turned by 270 degrees; it has the input's width and height.
C8_VerticalIsRotatedPass ==
    (Done /\ cfg = [DefaultConfig EXCEPT !.vertical = TRUE]) =>
        /\ out = Turn270(LinesFrom(DefaultConfig, tie, Turn90(img), Turn90(img), 0))
        /\ out.w = img.w /\ out.h = img.h

\* a vertical default pass over a 1 x 2 image reordered its column
C8_Witness ==
    /\ Done
    /\ cfg = [DefaultConfig EXCEPT !.vertical = TRUE]
    /\ img.w = 1 /\ img.h = 2
    /\ out # img

\* C9 as claimed: Config::sort never fails.
C9_NeverFails == pc # "panic"

\* C10: every coordinate of a scan line, which is every coordinate handed to
\* get_pixel and put_pixel, lies inside the buffer.
C10_CoordinatesInBounds ==
    \A j \in 1..Len(idxes) : InBounds(rgba, idxes[j])

\* a rotated sine row of a 2 x 2 image that lost samples to the filter
C10_Witness ==
    /\ pc = "sine" /\ cfg.angle # 0
    /\ rgba.w = 2 /\ rgba.h = 2
    /\ idxes # << >>
    /\ Len(idxes) < Diag(rgba.w, rgba.h)

---------------------------------------------------------------------------
(* Properties of the configuration, checked under SpecConfigure.           *)

\* Config::sort has been called and has not returned to its caller's next step
InPass == pc \in {"sort", "ellipse", "sine", "angled", "linear", "done"}

\* -90 < a < 90
InsideInterval(a) == ~IsNaN(a) /\ a > -90 * FP /\ a < 90 * FP

\* C11 as claimed: however the Config was made, by the command line or by
\* any sequence of web UI messages, no pass of Config::sort runs with an
\* angle outside the open interval (-90, 90).
C11_NoPassOutsideInterval == InPass => InsideInterval(cfg.angle)

---------------------------------------------------------------------------
(* Properties of Shape::from_str and check_angle, checked under SpecText.  *)

\* the numbers written by the numeric texts of ArgTexts
NumberTexts ==
    { <<<<"1">>, FP>>, <<<<"0", ".", "5">>, FP \div 2>>,
      <<<<" ", "2", " ">>, 2 * FP>>, <<<<"-", "3">>, -3 * FP>> }

\* the lists of 1 to 3 numeric texts
NumberLists == ListsUpTo(NumberTexts, 3)

\* the texts of a list of NumberTexts, and its numbers
Texts(l) == [i \in 1..Len(l) |-> l[i][1]]
Numbers(l) == [i \in 1..Len(l) |-> l[i][2]]

\* the forms sine(amp), sine(amp,period), sine(amp,period,offset) and the
\* ellipse forms of the same lengths, with the Shape the grammar gives them
SineForm(a) ==
    CASE Len(a) = 1 -> Sine(a[1], 50 * FP, 0)
      [] Len(a) = 2 -> Sine(a[1], a[2], 0)
      [] Len(a) = 3 -> Sine(a[1], a[2], a[3])

EllipseForm(a) ==
    CASE Len(a) = 1 -> Ellipse(a[1], FP \div 2, FP \div 2)
      [] Len(a) = 2 -> Ellipse(0, a[1], a[2])
      [] Len(a) = 3 -> Ellipse(a[1], a[2], a[3])

\* every text of the grammar drawn by SpecText, paired with its Shape
Grammar ==
    { <<sine_, Sine(25 * FP, 50 * FP, 0)>>,
      <<ellipse_, Ellipse(0, FP \div 2, FP \div 2)>> }
    \cup { <<sine_ \o Bracketed(b, Join(Texts(l))), SineForm(Numbers(l))>> :
             b \in Brackets, l \in NumberLists }
    \cup { <<ellipse_ \o Bracketed(b, Join(Texts(l))), EllipseForm(Numbers(l))>> :
             b \in Brackets, l \in NumberLists }

\* C12: from_str accepts each form of the grammar (sine and ellipse, bare or
\* with one to three arguments, between any of the four bracket pairs) and
\* returns the Shape whose fields are the arguments in order, the omitted
\* fields taking their defaults.
C12_GrammarAccepted ==
    pc = "parsed" =>
        \A g \in Grammar : text = g[1] => result = Ok(g[2])

\* an ellipse(cx,cy) between angle brackets has been parsed
C12_Witness ==
    /\ pc = "parsed"
    /\ text = ellipse_ \o <<"<", "-", "3", ",", "0", ".", "5", ">">>
    /\ result = Ok(Ellipse(0, -3 * FP, FP \div 2))
    /\ <<text, result.v>> \in Grammar

\* C13 as claimed: every text outside the grammar of C12 gets an Err that
\* echoes the trimmed text, and never a Shape.
C13_OutsideGrammarRejected ==
    pc = "parsed" /\ text \notin {g[1] : g \in Grammar} =>
        ~result.ok /\ result.v.arg = trim(text)

\* the texts from_str takes for a number: those of NumberTexts, and the f32
\* literals NaN and inf
F32Texts ==
    {t[1] : t \in NumberTexts} \cup {<<"N", "a", "N">>, <<"i", "n", "f">>}

\* name, then an optional space, then k arguments (k in lens) between a
\* matching pair of brackets
WithArgs(name, lens) ==
    { name \o p \o Bracketed(b, Join(l)) :
        p \in {<< >>, <<" ">>}, b \in Brackets,
        l \in UNION {[1..k -> F32Texts] : k \in lens} }

\* the trimmed texts for which from_str returns a Shape: the eight forms of
\* the grammar, and also the empty text, line, linear, circle,
\* circle(cx,cy), a space before the bracket, and NaN or inf as argument
AcceptedTexts ==
    {<< >>, line_, linear_, sine_, circle_, ellipse_}
    \cup WithArgs(sine_, 1..3) \cup WithArgs(circle_, {2}) \cup WithArgs(ellipse_, 1..3)

\* C13, amended: from_str returns either a Shape or an Err; it returns an
\* Err, whose message carries the trimmed text, for every text that is not
\* one of AcceptedTexts (unknown name, text after the name, missing or
\* unmatched bracket, empty or unparsable argument, too many arguments).
C13_MalformedRejected ==
    pc = "parsed" =>
        IF trim(text) \in AcceptedTexts
        THEN result.ok /\ result.v.shape \in {"Linear", "Sine", "Ellipse"}
        ELSE result = Err(err_msg(trim(text)))

\* a text with an unknown name between spaces has been rejected, and the
\* message carries it without the spaces
C13_Witness ==
    /\ pc = "parsed"
    /\ text = <<" ", "w", "a", "v", "e", " ">>
    /\ result = Err(err_msg(<<"w", "a", "v", "e">>))

---------------------------------------------------------------------------
(* Properties of the key extractors, checked under SpecKey.                *)

\* the pixel and the heuristic of the call
ThePixel == pixels[1]
TheKind == cfg.function

Keyed == pc = "key"

\* C14: for each of the ten kinds and every pixel drawn, the key function
\* returns a value in 0..255 and no step of it overflows its type or
\* divides by zero; the shifted sum of Luma is below 256 before the cast.
C14_KeyTotal ==
    Keyed /\ TheKind \in Heuristics =>
        /\ result.ok
        /\ result.v \in 0..255
        /\ TheKind = "Luma" => luma_u16(ThePixel) = result.v

\* Brightness of a pixel whose channels sum to more than 255 has been taken
C14_Witness ==
    /\ Keyed /\ TheKind = "Brightness"
    /\ ThePixel = <<255, 254, 255, 0>>
    /\ result = Ok(254)

\* the channels of the pixel of the call
R == ThePixel[1]
G == ThePixel[2]
B == ThePixel[3]

Highest == SetMax({R, G, B})
Lowest == SetMin({R, G, B})

\* the key each kind is specified to give
Specified(kind) ==
    CASE kind = "Red"   -> R
      [] kind = "Green" -> G
      [] kind = "Blue"  -> B
      [] kind \in {"Max", "Value"} -> Highest
      [] kind = "Min"    -> Lowest
      [] kind = "Chroma" -> Highest - Lowest
      [] kind = "Saturation" ->
           IF Highest = 0 THEN 0 ELSE (Highest - Lowest) \div Highest
      [] kind = "Brightness" ->
           (R \div 3) + (G \div 3) + (B \div 3) + (((R % 3) + (G % 3) + (B % 3)) \div 3)
      [] kind = "Luma" -> (2 * R + G + 4 * B) \div 8

\* C15: the key of every kind but Hue equals its specified definition,
\* Brightness equals floor((R + G + B) / 3) as well, and the key of every
\* kind is the same for every alpha.
C15_KeysAsSpecified ==
    Keyed /\ TheKind \in Heuristics =>
        /\ TheKind # "Hue" => result = Ok(Specified(TheKind))
        /\ TheKind = "Brightness" => result = Ok((R + G + B) \div 3)
        /\ \A a \in 0..255 : func(TheKind, <<R, G, B, a>>) = result.v

\* Saturation of a pixel with Max > Chroma > 0 and alpha 0 has been taken
C15_Witness ==
    /\ Keyed /\ TheKind = "Saturation"
    /\ ThePixel = <<128, 255, 43, 0>>
    /\ result = Ok(0)
    /\ Specified("Chroma") = 212

\* the sector of the claim: the first of R, G, B that is maximal
FirstMaximal ==
    IF R = Highest THEN 0 ELSE IF G = Highest THEN 1 ELSE 2

\* the hue of the claim's formula for a sector
SectorHue(sector) ==
    CASE sector = 0 -> (Abs(G - B) \div (Highest - Lowest)) * 43
      [] sector = 1 -> (Abs(B - R) \div (Highest - Lowest)) * 43 + 85
      [] sector = 2 -> (Abs(R - G) \div (Highest - Lowest)) * 43 + 171

\* C16 as claimed: when Chroma is not 0, Hue is the formula of the sector of
\* the first maximal channel in R, G, B order.
C16_HueFirstMaximal ==
    Keyed /\ TheKind = "Hue" /\ Highest # Lowest =>
        result = Ok(SectorHue(FirstMaximal))

\* C17: the Hue of a pixel with R = G = B is 0, whatever its alpha.
C17_GreyHueZero ==
    Keyed /\ TheKind = "Hue" /\ R = G /\ G = B => result = Ok(0)

\* the Hue of a grey pixel of alpha 0 has been taken
C17_Witness ==
    /\ Keyed /\ TheKind = "Hue"
    /\ ThePixel = <<128, 128, 128, 0>>
    /\ result = Ok(0)

\* no coordinate occurs twice in the sequence s
NoRepeat(s) == \A i, j \in 1..Len(s) : s[i] = s[j] => i = j

\* C18 as claimed: after idxes.dedup() no coordinate occurs more than once
\* in the coordinate list of an ellipse shell.
C18_ShellCoordinatesOnce == pc = "ellipse" => NoRepeat(idxes)

\* C19 as claimed: a Linear pass at angle 0 over any image processes one
\* scan line per row of the buffer, in ascending y, each the coordinates of
\* its row from left to right, `height` of them in all, and every row of the
\* result is a permutation of the same row before the pass.
C19_OneLinePerRow ==
    IsLinear(cfg) /\ cfg.angle = 0 =>
        /\ pc # "panic"
        /\ pc = "linear" /\ lineNo > 0 =>
              idxes = [j \in 1..rgba.w |-> <<j - 1, lineNo - 1>>]
        /\ Done =>
              /\ lineNo = rgba.h
              /\ \A y \in 0..(rgba.h - 1) : BagOf(Row(rgba, y)) = BagOf(Row(rgba_c, y))

\* the loop of a pass is running or over
Looping == pc \in {"ellipse", "sine", "angled", "linear", "done"}

\* the buffer before the first write of the pass: the image, turned by 90
\* degrees under vertical
PrePass == IF cfg.vertical THEN Turn90(img) ELSE img

\* C20: during a pass the clone is the buffer as it was before the first
\* write, the pixels of every scan line are those of the clone at the line's
\* coordinates, and every pixel value of the returned image is a pixel value
\* of the image before the pass.
C20_ReadsFromSnapshot ==
    /\ Looping => rgba_c = PrePass
    /\ Looping /\ lineNo > 0 =>
          orig = [j \in 1..Len(idxes) |-> get_pixel(rgba_c, idxes[j])]
    /\ Done => Values(out) \subseteq Values(img)

\* lines of a curved pass have been sorted, and the next line is about to
\* read a coordinate that an earlier line of the pass has changed
C20_Witness ==
    /\ pc \in {"ellipse", "sine"}
    /\ lineNo > 0 /\ lineNo < NLines(rgba.w, rgba.h, cfg)
    /\ orig = [j \in 1..Len(idxes) |-> get_pixel(rgba_c, idxes[j])]
    /\ \E cs \in {LineIdxes(rgba.w, rgba.h, cfg, lineNo)} :
          \E j \in 1..Len(cs) : get_pixel(rgba, cs[j]) # get_pixel(rgba_c, cs[j])

---------------------------------------------------------------------------
(* Properties of the order of the writes of a pass, checked under Spec.    *)

\* the scan line generated n-th (from 0): shells by decreasing semi-major
\* axis, sine rows, slanted rows and rows by ascending row index
Generated(n) ==
    CASE cfg.path.shape = "Ellipse" ->
           EllipseIdxes(rgba.w, rgba.h, cfg, NShells(rgba.w, rgba.h, cfg) - 1 - n)
      [] cfg.path.shape = "Sine" -> SineIdxes(rgba.w, rgba.h, cfg, n)
      [] cfg.angle # 0 -> AngledIdxes(rgba.w, rgba.h, cfg, AngledFirst(rgba.w, cfg) + n)
      [] OTHER -> LinearIdxes(rgba.w, rgba.h, n)

\* the pixels written along a scan line: those of the clone, ordered by do_sort
WrittenAlong(cs) ==
    do_sort(cfg, tie, [j \in 1..Len(cs) |-> get_pixel(rgba_c, cs[j])])

\* the value at coordinate xy when the writes of the lines ls with values
\* vs have happened: that of the greatest (line, position) that maps to xy,
\* or the value of the clone when none does
LastWritten(ls, vs, xy) ==
    LET writers == {nj \in UNION {{<<n, j>> : j \in 1..Len(ls[n])} : n \in DOMAIN ls} :
                        ls[nj[1]][nj[2]] = xy}
    IN  IF writers = {} THEN get_pixel(rgba_c, xy)
        ELSE LET last == CHOOSE nj \in writers : \A o \in writers :
                             o[1] < nj[1] \/ (o[1] = nj[1] /\ o[2] <= nj[2])
             IN  vs[last[1]][last[2]]

\* C21: when the loop of a pass is over, the value at every coordinate of
\* the buffer is the one written by the last position of the last scan line
\* generated that maps to it (shells from the outermost inwards, rows in
\* ascending row index, positions in ascending sample index), and the value
\* of the clone where no line maps to it.
C21_LastWriteStays ==
    Done =>
        \E ls \in {[n \in 1..lineNo |-> Generated(n - 1)]} :
        \E vs \in {[n \in 1..lineNo |-> WrittenAlong(ls[n])]} :
            \A x \in 0..(rgba.w - 1), y \in 0..(rgba.h - 1) :
                get_pixel(rgba, <<x, y>>) = LastWritten(ls, vs, <<x, y>>)

\* two shells have written different values to one coordinate, and the
\* buffer of the finished pass holds the value of the later, inner one
C21_Witness ==
    /\ Done /\ cfg.path.shape = "Ellipse" /\ lineNo >= 2
    /\ \E a, b \in 1..lineNo :
          /\ a < b
          /\ \E i \in 1..Len(Generated(a - 1)), j \in 1..Len(Generated(b - 1)) :
                /\ Generated(a - 1)[i] = Generated(b - 1)[j]
                /\ WrittenAlong(Generated(a - 1))[i] # WrittenAlong(Generated(b - 1))[j]
                /\ \A k \in (b + 1)..lineNo : \A l \in 1..Len(Generated(k - 1)) :
                      Generated(k - 1)[l] # Generated(b - 1)[j]
                /\ \A l \in (j + 1)..Len(Generated(b - 1)) :
                      Generated(b - 1)[l] # Generated(b - 1)[j]
                /\ get_pixel(rgba, Generated(b - 1)[j]) = WrittenAlong(Generated(b - 1))[j]

---------------------------------------------------------------------------
(* Termination of Config::do_sort, checked under SpecDoSortFair.           *)

\* C22: do_sort returns on every scan line drawn, the empty one included;
\* every iteration of its loop moves the cursor forward by at least one
\* position, the cursor never passes the end of the slice, the two
\* take_while predicates are complements on every pixel of the line, and a
\* line without a selected pixel is returned as it was.
C22_DoSortTerminates ==
    /\ <>Returned
    /\ [](ctr <= Len(pixels))
    /\ [][pc' = "do_sort" => ctr' > ctr]_vars
    /\ [](\A i \in 1..Len(pixels) : RunPred(cfg, pixels[i]) <=> ~SkipPred(cfg, pixels[i]))
    /\ []((Returned /\ SelectedIdx(cfg, orig) = {}) => pixels = orig)

\* do_sort has returned a line of three pixels, none of them selected, one
\* of them because of the mask alone
C22_Witness ==
    /\ Returned
    /\ Len(orig) = 3
    /\ SelectedIdx(cfg, orig) = {}
    /\ \E i \in 1..3 : ~mask_fn(cfg, orig[i])
                        /\ (cfg.minimum <= sort_fn(cfg, orig[i])
                            /\ sort_fn(cfg, orig[i]) <= cfg.maximum) # cfg.invert
    /\ pixels = orig
    /\ ctr = 3

---------------------------------------------------------------------------
(* Properties of the scan lines of path Linear as units of work, checked   *)
(* under SpecTall.                                                         *)

\* the row_idx of the window of the tall image
TallRows == TallFirst..(rgba.h - 1)

\* every order in which the rows of the window can be taken
TallOrders ==
    {o \in [1..Cardinality(TallRows) -> TallRows] :
        \A i, j \in 1..Cardinality(TallRows) : i # j => o[i] # o[j]}

\* the coordinates scan line row_idx writes
WrittenBy(row_idx) ==
    {TallIdxes(rgba.w, rgba.h, cfg, row_idx)[j] :
        j \in 1..Len(TallIdxes(rgba.w, rgba.h, cfg, row_idx))}

\* the buffer after the rows of o have been processed from position n on,
\* each reading the clone and writing to b
RECURSIVE TakenInOrder(_, _, _)
TakenInOrder(b, o, n) ==
    IF n > Len(o) THEN b
    ELSE LET cs == TallIdxes(b.w, b.h, cfg, o[n])
             ps == [j \in 1..Len(cs) |-> rgba_c.px[cs[j]]]
         IN  TakenInOrder(TallPut(b, cs, do_sort(cfg, tie, ps)), o, n + 1)

\* C23: for path Linear distinct scan lines write disjoint sets of
\* coordinates, and the rows taken in any order give the buffer that the
\* pass, which takes them by ascending row_idx, gives
C23_AnyOrderSameOutput ==
    Done =>
        /\ \A r1, r2 \in TallRows : r1 # r2 => WrittenBy(r1) \cap WrittenBy(r2) = {}
        /\ \A o \in TallOrders : TakenInOrder(rgba_c, o, 1) = rgba

---------------------------------------------------------------------------
(* Properties of the arm of Shape::Linear with angle != 0, checked under   *)
(* Spec.                                                                   *)

\* floor(width * tan(angle))
FloorWidthTan == (rgba.w * AngleTan(cfg)) \div FP

\* the first row_idx and the number of row_idx of the range as the
\* specification words it
RangeFirst == IF FloorWidthTan > 0 THEN 0 - FloorWidthTan ELSE 0
RangeSize ==
    IF FloorWidthTan > 0 THEN rgba.h + FloorWidthTan ELSE rgba.h - FloorWidthTan

\* C24: in a Linear pass with angle != 0 one scan line is generated per
\* row_idx of [-extra_height, height) when extra_height > 0 and of
\* [0, height - extra_height) otherwise; a scan line holds at most one
\* coordinate per x, x strictly increasing, and exactly the coordinates with
\* 0 < y < height, so row y = 0 is the same in the input and in the output
C24_AngledScanLines ==
    /\ pc = "angled" /\ lineNo > 0 =>
          /\ lineNo <= RangeSize
          /\ \A i, j \in 1..Len(idxes) : i < j => idxes[i][1] < idxes[j][1]
          /\ \A j \in 1..Len(idxes) :
                /\ idxes[j][1] \in 0..(rgba.w - 1)
                /\ idxes[j][2] > 0 /\ idxes[j][2] < rgba.h
                /\ idxes[j][2] =
                      AsU32(idxes[j][1] * AngleTan(cfg) + (RangeFirst + lineNo - 1) * FP)
          /\ \A x \in 0..(rgba.w - 1) :
                (\A j \in 1..Len(idxes) : idxes[j][1] # x) =>
                    \/ AsU32(x * AngleTan(cfg) + (RangeFirst + lineNo - 1) * FP) <= 0
                    \/ AsU32(x * AngleTan(cfg) + (RangeFirst + lineNo - 1) * FP) >= rgba.h
    /\ Done /\ Branch(cfg) = "angled" =>
          /\ lineNo = RangeSize
          /\ rgba.h > 0 =>
                \A x \in 0..(rgba.w - 1) :
                    get_pixel(rgba, <<x, 0>>) = get_pixel(rgba_c, <<x, 0>>)
          /\ ~cfg.vertical /\ img.h > 0 =>
                \A x \in 0..(img.w - 1) : get_pixel(out, <<x, 0>>) = get_pixel(img, <<x, 0>>)

\* a finished slanted pass over the range that starts below zero which
\* changed the image, and one over the range that ends beyond the height
C24_Witness ==
    /\ Done /\ Branch(cfg) = "angled"
    /\ rgba.h = 2 /\ rgba.w = 2
    /\ rgba # rgba_c
    /\ FloorWidthTan > 0
    /\ lineNo = rgba.h + FloorWidthTan

---------------------------------------------------------------------------
(* Properties of a second application of Config::do_sort, checked under    *)
(* SpecDoSort.                                                             *)

\* the keys along a scan line
KeysAlong(s) == [i \in 1..Len(s) |-> sort_fn(cfg, s[i])]

\* C25: do_sort applied with the same Config to its own output leaves the
\* sequence of keys along the scan line unchanged, whichever way the sort
\* orders equal keys; the first application keeps the set of selected
\* positions
C25_IdempotentOnKeys ==
    Returned =>
        /\ SelectedIdx(cfg, pixels) = SelectedIdx(cfg, orig)
        /\ \A t \in TieOrders : KeysAlong(do_sort(cfg, t, pixels)) = KeysAlong(pixels)

\* a returned call that changed the line, and whose output a second
\* application changes again while the keys stay
C25_Witness ==
    /\ Returned /\ pixels # orig /\ KeysAlong(pixels) # KeysAlong(orig)
    /\ \E t \in TieOrders :
          /\ do_sort(cfg, t, pixels) # pixels
          /\ KeysAlong(do_sort(cfg, t, pixels)) = KeysAlong(pixels)

---------------------------------------------------------------------------
(* Properties of the effect of one message on the Config of the web UI,    *)
(* checked under SpecConfigure.                                            *)

\* a step leaves every field of the Config but f as it was
OnlyField(f) == \A g \in DOMAIN cfg \ {f} : cfg'[g] = cfg[g]

\* a step flips the flag f of the Config and leaves the other fields
Flips(f) == OnlyField(f) /\ cfg'[f] = ~cfg[f] /\ ~cfg'[f] = cfg[f]

\* a step leaves every parameter of the path but q as it was
OnlyParam(q) ==
    /\ OnlyField("path")
    /\ DOMAIN cfg'.path = DOMAIN cfg.path
    /\ \A g \in DOMAIN cfg.path \ {q} : cfg'.path[g] = cfg.path[g]

\* C26: in Root::update every message changes at most the one field of the
\* Config it names; a text that does not parse, and a ChangeSine* or
\* ChangeEllipse* message while the path is of another shape, leave the
\* Config as it was; a Toggle* message flips its own flag only; DoSort and
\* the pass it starts never change the Config, and DoSort without an input
\* leaves the output as it was
C26_UpdateFrame ==
    [][/\ pc = "idle" => Cardinality({f \in DOMAIN cfg : cfg'[f] # cfg[f]}) <= 1
       /\ pc \notin {"idle", "start"} => cfg' = cfg
       /\ DoSort => /\ cfg' = cfg
                    /\ ~input.some => output' = output /\ pc' = "idle"
       /\ ToggleRotate => Flips("vertical")
       /\ ToggleReverse => Flips("reverse")
       /\ ToggleAlpha => Flips("mask_alpha")
       /\ ToggleInvert => Flips("invert")
       /\ ChangeAngle =>
             /\ OnlyField("angle")
             /\ cfg' # cfg =>
                   \E s \in AngleFieldTexts : parse_f32(s).ok /\ cfg'.angle = parse_f32(s).v
       /\ ChangeMin =>
             /\ OnlyField("minimum")
             /\ cfg' # cfg =>
                   \E s \in ByteTexts : parse_u8(s).ok /\ cfg'.minimum = parse_u8(s).v
       /\ ChangeMax =>
             /\ OnlyField("maximum")
             /\ cfg' # cfg =>
                   \E s \in ByteTexts : parse_u8(s).ok /\ cfg'.maximum = parse_u8(s).v
       /\ ChangeFunction =>
             /\ OnlyField("function")
             /\ cfg' # cfg =>
                   \E s \in FunctionOptions :
                       s.some /\ parse_heuristic(s.v).ok /\ cfg'.function = parse_heuristic(s.v).v
       /\ ChangeShapeType =>
             /\ OnlyField("path")
             /\ cfg' # cfg =>
                   \E s \in ShapeOptions :
                       s.some /\ from_str(s.v).ok /\ cfg'.path = from_str(s.v).v
       /\ ChangeSineAmplitude => OnlyParam("amplitude")
       /\ ChangeSineLambda => OnlyParam("lambda")
       /\ ChangeSineOffset => OnlyParam("offset")
       /\ ChangeEllipseEccentricity => OnlyParam("eccentricity")
       /\ ChangeEllipseCenterX =>
             /\ OnlyParam("center")
             /\ cfg.path.shape = "Ellipse" => cfg'.path.center[2] = cfg.path.center[2]
       /\ ChangeEllipseCenterY =>
             /\ OnlyParam("center")
             /\ cfg.path.shape = "Ellipse" => cfg'.path.center[1] = cfg.path.center[1]
       /\ (ChangeSineAmplitude \/ ChangeSineLambda \/ ChangeSineOffset) =>
             /\ cfg.path.shape # "Sine" => cfg' = cfg
             /\ cfg' # cfg => \E s \in ParamTexts : parse_f32(s).ok
       /\ (ChangeEllipseEccentricity \/ ChangeEllipseCenterX \/ ChangeEllipseCenterY) =>
             /\ cfg.path.shape # "Ellipse" => cfg' = cfg
             /\ cfg' # cfg => \E s \in ParamTexts : parse_f32(s).ok
      ]_vars

\* the state after ChangeShapeType chose the sine and ChangeSineAmplitude set
\* the amplitude: the other parameters of DEFAULT_SINE and the other fields
\* of the default Config are as they were
C26_Witness ==
    /\ pc = "idle" /\ nmsg = 2
    /\ cfg = [DefaultConfig EXCEPT !.path = Sine(1 * FP, DEFAULT_LAMBDA, 0)]

=============================================================================
